---- MODULE Spec2Model ----
(***************************************************************************)
(* Model of the ERP testing backend: the sqlite-backed REST handlers of    *)
(* server.js and the token-authenticated routers of src/routes/*.ts.       *)
(* The tables of the store are the state and each request handler is one   *)
(* action: it draws the request from a small set, computes from the tables *)
(* it reads the tables it writes and the response, and records the request *)
(* and the response.                                                       *)
(***************************************************************************)
EXTENDS Integers, Sequences, FiniteSets, TLC

VARIABLES
  backend,          \* which implementation serves the store: "server" (server.js) or "ts" (src/routes/*.ts)
  users,            \* users table: id -> row
  versions,         \* versions table: version_id -> row
  modules,          \* modules table: module_id -> row
  custom_tests,     \* custom_tests table: test_id -> row
  test_sessions,    \* test_sessions table: session_id -> row
  test_results,     \* test_results table: set of result rows
  test_feedback,    \* test_feedback table: set of feedback rows
  bugs,             \* bugs table: bug_id -> row
  bug_history,      \* bug_history table: sequence of rows in insertion order
  bug_attachments,  \* bug_attachments table: set of rows
  features,         \* upcoming_features table: feature_id -> row
  feature_history,  \* feature_history table: sequence of rows in insertion order
  inTx,             \* TRUE while the shared connection has an open transaction
  log,              \* console.error lines written by the handlers
  unhandled,        \* number of statement errors that no callback received
  now,              \* the clock, in milliseconds (Date.now())
  pending,          \* the requests whose first statement ran and whose callback is queued
  req,              \* the request handled last
  resp              \* the response sent to it

vars == <<backend, users, versions, modules, custom_tests, test_sessions,
          test_results, test_feedback, bugs, bug_history, bug_attachments,
          features, feature_history, inTx, log, unhandled, now, pending, req, resp>>

\* what a handler leaves alone: every table and counter but those it names
\* (the request and the response are set by every handler)
Frame(changed) ==
  /\ backend' = backend
  /\ IF "users" \in changed THEN TRUE ELSE users' = users
  /\ IF "versions" \in changed THEN TRUE ELSE versions' = versions
  /\ IF "modules" \in changed THEN TRUE ELSE modules' = modules
  /\ IF "custom_tests" \in changed THEN TRUE ELSE custom_tests' = custom_tests
  /\ IF "test_sessions" \in changed THEN TRUE ELSE test_sessions' = test_sessions
  /\ IF "test_results" \in changed THEN TRUE ELSE test_results' = test_results
  /\ IF "test_feedback" \in changed THEN TRUE ELSE test_feedback' = test_feedback
  /\ IF "bugs" \in changed THEN TRUE ELSE bugs' = bugs
  /\ IF "bug_history" \in changed THEN TRUE ELSE bug_history' = bug_history
  /\ IF "bug_attachments" \in changed THEN TRUE ELSE bug_attachments' = bug_attachments
  /\ IF "features" \in changed THEN TRUE ELSE features' = features
  /\ IF "feature_history" \in changed THEN TRUE ELSE feature_history' = feature_history
  /\ IF "inTx" \in changed THEN TRUE ELSE inTx' = inTx
  /\ IF "log" \in changed THEN TRUE ELSE log' = log
  /\ IF "unhandled" \in changed THEN TRUE ELSE unhandled' = unhandled
  /\ IF "now" \in changed THEN TRUE ELSE now' = now
  /\ IF "pending" \in changed THEN TRUE ELSE pending' = pending

----------------------------------------------------------------------------
(* Generic helpers *)

NoRequest  == [op |-> "none", id |-> "none"]
NoResponse == [code |-> 0, error |-> "", rows |-> {}]

Ok(msg)          == [code |-> 200, error |-> "", message |-> msg, rows |-> {}]
Created(msg)     == [code |-> 201, error |-> "", message |-> msg, rows |-> {}]
Err(code, msg)   == [code |-> code, error |-> msg, rows |-> {}]
Rows(rs)         == [code |-> 200, error |-> "", rows |-> rs]

\* f with the row at key k removed
DropKey(f, k) == [x \in (DOMAIN f) \ {k} |-> f[x]]
\* f with the row r stored at key k
PutKey(f, k, r) == [x \in (DOMAIN f) \cup {k} |-> IF x = k THEN r ELSE f[x]]

EmptyTable == DropKey([x \in {"none"} |-> 0], "none")

----------------------------------------------------------------------------
(* Versions: server.js /api/versions *)

MaxSessions == 1

\* `VER_${version_number.replace(/\./g, '_')}`
VersionIdOf(version_number) ==
  <<"VER_">> \o [i \in 1..Len(version_number) |->
                   IF version_number[i] = "." THEN "_" ELSE version_number[i]]

\* the rows initializeDatabase inserts into an empty versions table
DefaultVersions ==
  LET n100 == <<"1", ".", "0", ".", "0">>
      n120 == <<"1", ".", "2", ".", "0">>
  IN  [v \in {VersionIdOf(n100), VersionIdOf(n120)} |->
         IF v = VersionIdOf(n100)
           THEN [version_number |-> n100, status |-> "archived", is_current |-> 0]
           ELSE [version_number |-> n120, status |-> "active",   is_current |-> 1]]

\* the version numbers a request carries: two that give the same version_id
VersionNumbers == { <<"2", ".", "0">>, <<"2", "_", "0">> }

\* the version ids a request can name: those of every version number, stored or not
VersionIds == {VersionIdOf(n) : n \in VersionNumbers} \cup DOMAIN DefaultVersions

\* UPDATE versions SET is_current = 0
UnsetAllVersions(vs) == [v \in DOMAIN vs |-> [vs[v] EXCEPT !.is_current = 0]]

\* the update without its unset of the other versions
UnsetOtherVersionsSkipped(vs, version_id) == vs

\* UPDATE versions SET is_current = 0 WHERE version_id != ?
UnsetOtherVersions(vs, version_id) ==
  [v \in DOMAIN vs |-> IF v # version_id THEN [vs[v] EXCEPT !.is_current = 0] ELSE vs[v]]

\* app.post('/api/versions')
PostVersion ==
  /\ backend = "server"
  /\ \E n \in VersionNumbers, c \in BOOLEAN, s \in {"active", "archived"} :
       LET body == [version_number |-> n, is_current |-> c, status |-> s]
           version_id == VersionIdOf(body.version_number)
           vs1 == IF body.is_current THEN UnsetAllVersions(versions) ELSE versions
       IN  /\ IF version_id \in DOMAIN vs1
                THEN /\ versions' = vs1
                     /\ resp' = Err(500, "UNIQUE constraint failed: versions.version_id")
                ELSE /\ versions' = PutKey(vs1, version_id,
                                      [version_number |-> body.version_number,
                                       status |-> body.status,
                                       is_current |-> IF body.is_current THEN 1 ELSE 0])
                     /\ resp' = Ok("Version created successfully")
           /\ req' = [op |-> "PostVersion", id |-> version_id, is_current |-> c]
           /\ Frame({"versions"})

\* app.put('/api/versions/:version_id'); the body is the set of its keys and their values
PutVersion ==
  /\ backend = "server"
  /\ \E version_id \in VersionIds,
        updates \in [keys : SUBSET {"is_current", "status", "created_at"},
                     is_current : BOOLEAN, status : {"active", "archived"}] :
       LET vs1 == IF "is_current" \in updates.keys /\ updates.is_current
                    THEN UnsetOtherVersions(versions, version_id) ELSE versions
           \* the keys that become SET clauses
           fields == updates.keys \ {"version_id", "id", "created_at"}
           newRow(r) == [r EXCEPT
                           !.is_current = IF "is_current" \in fields
                                            THEN (IF updates.is_current THEN 1 ELSE 0) ELSE @,
                           !.status = IF "status" \in fields THEN updates.status ELSE @]
       IN  /\ IF fields = {}
                THEN versions' = vs1 /\ resp' = Err(400, "No fields to update")
              ELSE IF version_id \notin DOMAIN vs1
                THEN versions' = vs1 /\ resp' = Err(404, "Version not found")
              ELSE /\ versions' = [vs1 EXCEPT ![version_id] = newRow(@)]
                   /\ resp' = Ok("Version updated successfully")
           /\ req' = [op |-> "PutVersion", id |-> version_id,
                      is_current |-> ("is_current" \in updates.keys /\ updates.is_current)]
           /\ Frame({"versions"})

\* app.delete('/api/versions/:version_id')
DeleteVersion ==
  /\ backend = "server"
  /\ \E version_id \in VersionIds :
       LET \* SELECT COUNT(*) FROM test_sessions WHERE version_id = ?
           count == Cardinality({s \in DOMAIN test_sessions :
                                   test_sessions[s].version_id = version_id})
       IN  /\ IF version_id \notin DOMAIN versions
                THEN versions' = versions /\ resp' = Err(404, "Version not found")
              ELSE IF versions[version_id].is_current # 0
                THEN versions' = versions /\ resp' = Err(400, "Cannot delete current version")
              ELSE IF count > 0
                THEN /\ versions' = [versions EXCEPT ![version_id].status = "archived"]
                     /\ resp' = Ok("Version archived successfully")
              ELSE /\ versions' = DropKey(versions, version_id)
                   /\ resp' = Ok("Version deleted successfully")
           /\ req' = [op |-> "DeleteVersion", id |-> version_id]
           /\ Frame({"versions"})

\* app.put('/api/versions/:version_id/set-current')
SetCurrentVersion ==
  /\ backend = "server"
  /\ \E version_id \in VersionIds :
       LET vs1 == UnsetAllVersions(versions)
       IN  /\ IF version_id \notin DOMAIN vs1
                THEN versions' = vs1 /\ resp' = Err(404, "Version not found")
                ELSE /\ versions' = [vs1 EXCEPT ![version_id].is_current = 1]
                     /\ resp' = Ok("Current version updated successfully")
           /\ req' = [op |-> "SetCurrentVersion", id |-> version_id]
           /\ Frame({"versions"})

\* app.post('/api/sessions'): the session id is time- and random-based, one the table does not hold
PostSession ==
  /\ backend = "server"
  /\ Cardinality(DOMAIN test_sessions) < MaxSessions
  /\ \E session_id \in {"TEST-1", "TEST-2"} \ DOMAIN test_sessions, version_id \in VersionIds :
       /\ test_sessions' = PutKey(test_sessions, session_id, [version_id |-> version_id])
       /\ resp' = Ok("Test session created successfully")
       /\ req' = [op |-> "PostSession", id |-> session_id]
       /\ Frame({"test_sessions"})

----------------------------------------------------------------------------
(* The two statements of a request that makes a version current.  db.run   *)
(* queues a statement and returns; the second statement is issued by the   *)
(* callback of the first, after the statements other requests queued.      *)

MaxPending == 2

\* the rows of the history the attachment handlers write to
MaxAttachmentHistory == 3

\* the first statement of PUT /api/versions/:version_id/set-current and of
\* PUT /api/versions/:version_id with {is_current: true}: the unset
handleCurrentVersion ==
  /\ backend = "server"
  /\ Cardinality(pending) < MaxPending
  /\ \E version_id \in VersionIds, op \in {"SetCurrentVersion", "PutVersion"} :
       /\ [op |-> op, id |-> version_id] \notin pending
       /\ versions' = IF op = "SetCurrentVersion" THEN UnsetAllVersions(versions)
                      ELSE UnsetOtherVersions(versions, version_id)
       /\ pending' = pending \cup {[op |-> op, id |-> version_id]}
       /\ req' = [op |-> "handleCurrentVersion", id |-> version_id, of |-> op]
       /\ resp' = NoResponse
       /\ Frame({"versions", "pending"})

\* the callback of the unset: UPDATE versions SET is_current = 1 WHERE
\* version_id = ?, and the response
handleCurrentVersionCallback ==
  /\ \E p \in {q \in pending : q.op \in {"SetCurrentVersion", "PutVersion"}} :
       /\ IF p.id \notin DOMAIN versions
            THEN versions' = versions /\ resp' = Err(404, "Version not found")
            ELSE /\ versions' = [versions EXCEPT ![p.id].is_current = 1]
                 /\ resp' = Ok(IF p.op = "SetCurrentVersion"
                                 THEN "Current version updated successfully"
                                 ELSE "Version updated successfully")
       /\ pending' = pending \ {p}
       /\ req' = [op |-> p.op, id |-> p.id, is_current |-> TRUE]
       /\ Frame({"versions", "pending"})

\* the first statement of DELETE /api/versions/:version_id: SELECT is_current,
\* answered at once for a missing and for the current version
DeleteVersionCheck ==
  /\ backend = "server"
  /\ Cardinality(pending) < MaxPending
  /\ \E version_id \in VersionIds :
       /\ [op |-> "DeleteVersion", id |-> version_id] \notin pending
       /\ IF version_id \notin DOMAIN versions
            THEN /\ resp' = Err(404, "Version not found")
                 /\ req' = [op |-> "DeleteVersion", id |-> version_id]
                 /\ pending' = pending
          ELSE IF versions[version_id].is_current # 0
            THEN /\ resp' = Err(400, "Cannot delete current version")
                 /\ req' = [op |-> "DeleteVersion", id |-> version_id]
                 /\ pending' = pending
          ELSE /\ resp' = NoResponse
               /\ req' = [op |-> "DeleteVersionCheck", id |-> version_id]
               /\ pending' = pending \cup {[op |-> "DeleteVersion", id |-> version_id]}
       /\ Frame({"pending"})

\* the callback of the SELECT: the count of the sessions of the version, then
\* the UPDATE that archives or the DELETE that removes, and the response
DeleteVersionRun ==
  /\ \E p \in {q \in pending : q.op = "DeleteVersion"} :
       LET count == Cardinality({s \in DOMAIN test_sessions :
                                   test_sessions[s].version_id = p.id})
       IN  /\ IF count > 0
                THEN /\ versions' = IF p.id \in DOMAIN versions
                                      THEN [versions EXCEPT ![p.id].status = "archived"]
                                      ELSE versions
                     /\ resp' = Ok("Version archived successfully")
                ELSE /\ versions' = DropKey(versions, p.id)
                     /\ resp' = Ok("Version deleted successfully")
           /\ pending' = pending \ {p}
           /\ req' = [op |-> "DeleteVersion", id |-> p.id]
           /\ Frame({"versions", "pending"})

----------------------------------------------------------------------------
(* Users: server.js /api/users and src/routes/users.ts, src/routes/auth.ts *)

MaxUsers == 3

Emails == {"A@x", "a@x", "b@x"}
Roles == {"admin", "tester"}

\* email.toLowerCase()
ToLowerCase(email) == IF email = "A@x" THEN "a@x" ELSE email

\* the rows initializeDatabase (server.js) inserts into an empty users table
DefaultUsers ==
  [u \in {"admin-001", "tester-001"} |->
     IF u = "admin-001"
       THEN [email |-> "admin@dnaerp.com",  role |-> "admin",  status |-> "active", is_active |-> 1]
       ELSE [email |-> "tester@dnaerp.com", role |-> "tester", status |-> "active", is_active |-> 1]]

\* the row the database initialisation of the routers inserts into an empty users table
TsDefaultUsers ==
  [u \in {1} |-> [email |-> "admin@dnaerp.com", role |-> "admin", status |-> "active", is_active |-> 1]]

\* the ids a request of server.js can name or create
ServerUserIds == {"admin-001", "tester-001", "user-1", "user-2"}

EmailTaken(us, email) == \E u \in DOMAIN us : us[u].email = email

\* app.post('/api/users')
PostUser ==
  /\ backend = "server"
  /\ Cardinality(DOMAIN users) < MaxUsers
  /\ \E id \in ServerUserIds \ DOMAIN users,
        body \in [email : Emails, role : Roles, status : {"active", "inactive"}] :
       /\ IF EmailTaken(users, ToLowerCase(body.email))
            THEN users' = users /\ resp' = Err(400, "Email already exists")
            ELSE /\ users' = PutKey(users, id,
                               [email |-> ToLowerCase(body.email), role |-> body.role,
                                status |-> body.status, is_active |-> 1])
                 /\ resp' = Ok("User created successfully")
       /\ req' = [op |-> "PostUser", id |-> id, authorized |-> TRUE]
       /\ Frame({"users"})

\* app.put('/api/users/:id')
PutUser ==
  /\ backend = "server"
  /\ \E id \in ServerUserIds,
        updates \in [keys : SUBSET {"role", "status", "id"}, role : Roles,
                     status : {"active", "inactive"}] :
       LET \* the keys that become SET clauses
           fields == updates.keys \ {"id", "created_at"}
           newRow(r) == [r EXCEPT !.role   = IF "role" \in fields THEN updates.role ELSE @,
                                  !.status = IF "status" \in fields THEN updates.status ELSE @]
       IN  /\ IF fields = {}
                THEN users' = users /\ resp' = Err(400, "No fields to update")
              ELSE IF id \notin DOMAIN users
                THEN users' = users /\ resp' = Err(404, "User not found")
              ELSE /\ users' = [users EXCEPT ![id] = newRow(@)]
                   /\ resp' = Ok("User updated successfully")
           /\ req' = [op |-> "PutUser", id |-> id, authorized |-> TRUE]
           /\ Frame({"users"})

\* app.delete('/api/users/:id')
DeleteUser ==
  /\ backend = "server"
  /\ \E id \in ServerUserIds :
       LET \* SELECT COUNT(*) as adminCount FROM users WHERE role = 'admin' AND id != ?
           adminCount == Cardinality({u \in DOMAIN users : users[u].role = "admin" /\ u # id})
       IN  /\ IF id \notin DOMAIN users
                THEN users' = users /\ resp' = Err(404, "User not found")
              ELSE IF users[id].role = "admin" /\ adminCount = 0
                THEN users' = users /\ resp' = Err(400, "Cannot delete the last admin user")
              ELSE users' = DropKey(users, id) /\ resp' = Ok("User deleted successfully")
           /\ req' = [op |-> "DeleteUser", id |-> id, authorized |-> TRUE]
           /\ Frame({"users"})

\* the token middleware of src/middleware/auth: the caller is the user the token was issued to
Tokens(us) == {[id |-> u, role |-> us[u].role] : u \in {x \in DOMAIN us : us[x].is_active = 1}}
RequireAdmin(caller) == caller.role = "admin"

\* INTEGER PRIMARY KEY AUTOINCREMENT: one more than the largest id ever used (rows are never removed)
TsNextUserId(us) == Cardinality(DOMAIN us) + 1

\* router.post('/register') of auth.ts and router.post('/') of users.ts: the same insert
TsInsertUser(us, body) ==
  IF EmailTaken(us, body.email)
    THEN [users |-> us, resp |-> Err(400, "Email already registered")]
    ELSE [users |-> PutKey(us, TsNextUserId(us), [email |-> body.email, role |-> body.role,
                                                  status |-> "active", is_active |-> 1]),
          resp |-> Created("User created successfully")]

\* router.post('/register') of auth.ts
TsRegister ==
  /\ backend = "ts"
  /\ Cardinality(DOMAIN users) < MaxUsers
  /\ \E e \in Emails, r \in Roles :
       LET out == TsInsertUser(users, [email |-> e, role |-> r])
       IN  /\ users' = out.users
           /\ resp' = out.resp
           /\ req' = [op |-> "TsRegister", id |-> TsNextUserId(users), authorized |-> TRUE,
                      \* no token is asked for
                      caller |-> [id |-> 0, role |-> "none"]]
           /\ Frame({"users"})

\* router.post('/') of users.ts
TsPostUser ==
  /\ backend = "ts"
  /\ Cardinality(DOMAIN users) < MaxUsers
  /\ \E caller \in Tokens(users), e \in Emails, r \in Roles :
       LET out == IF RequireAdmin(caller) THEN TsInsertUser(users, [email |-> e, role |-> r])
                  ELSE [users |-> users, resp |-> Err(403, "Admin access required")]
       IN  /\ users' = out.users
           /\ resp' = out.resp
           /\ req' = [op |-> "TsPostUser", id |-> TsNextUserId(users),
                      authorized |-> RequireAdmin(caller), caller |-> caller]
           /\ Frame({"users"})

\* router.put('/:id') of users.ts
TsPutUser ==
  /\ backend = "ts"
  /\ \E caller \in Tokens(users), id \in 1..MaxUsers,
        body \in [keys : SUBSET {"role", "is_active"}, role : Roles, is_active : BOOLEAN] :
       LET newRow(r) == [r EXCEPT
             !.role = IF "role" \in body.keys /\ caller.role = "admin" THEN body.role ELSE @,
             !.is_active = IF "is_active" \in body.keys /\ caller.role = "admin"
                             THEN (IF body.is_active THEN 1 ELSE 0) ELSE @]
           allowed == caller.id = id \/ caller.role = "admin"
       IN  /\ IF ~allowed
                THEN users' = users /\ resp' = Err(403, "Unauthorized")
              ELSE IF id \notin DOMAIN users
                THEN users' = users /\ resp' = Err(404, "User not found")
              ELSE /\ users' = [users EXCEPT ![id] = newRow(@)]
                   /\ resp' = Ok("User updated successfully")
           /\ req' = [op |-> "TsPutUser", id |-> id, authorized |-> allowed, caller |-> caller]
           /\ Frame({"users"})

\* router.delete('/:id') of users.ts
TsDeleteUser ==
  /\ backend = "ts"
  /\ \E caller \in Tokens(users), id \in 1..MaxUsers :
       /\ IF ~RequireAdmin(caller)
            THEN users' = users /\ resp' = Err(403, "Admin access required")
          ELSE IF id \notin DOMAIN users
            THEN users' = users /\ resp' = Err(404, "User not found")
          ELSE /\ users' = [users EXCEPT ![id].is_active = 0]
               /\ resp' = Ok("User deactivated successfully")
       /\ req' = [op |-> "TsDeleteUser", id |-> id, authorized |-> RequireAdmin(caller),
                  caller |-> caller]
       /\ Frame({"users"})

----------------------------------------------------------------------------
(* JavaScript values and JSON text.  A value is a type tag and a sequence   *)
(* of tokens: the characters of a string or of a stored text, the digits   *)
(* of a number, the elements of an array of strings.                       *)

JsUndefined == [t |-> "undefined", v |-> <<>>]
JsNull      == [t |-> "null", v |-> <<>>]
JsStr(text) == [t |-> "string", v |-> text]
JsArr(elts) == [t |-> "array", v |-> elts]
JsNum(n)    == [t |-> "number", v |-> <<ToString(n)>>]
\* a string of one token
S(word)     == JsStr(<<word>>)

RECURSIVE JoinQuoted(_)
\* the elements of an array, each in double quotes, separated by commas
JoinQuoted(elts) ==
  IF elts = <<>> THEN <<>>
  ELSE <<"\"", Head(elts), "\"">> \o
       (IF Len(elts) = 1 THEN <<>> ELSE <<",">> \o JoinQuoted(Tail(elts)))

\* JSON.stringify(value), the text it returns
JSONstringify(value) ==
  CASE value.t = "array"  -> <<"[">> \o JoinQuoted(value.v) \o <<"]">>
    [] value.t = "string" -> <<"\"">> \o value.v \o <<"\"">>
    [] value.t = "null"   -> <<"null">>
    [] OTHER              -> value.v

\* value || fallback
OrElse(value, fallback) ==
  IF value \in {JsUndefined, JsNull, JsStr(<<>>), JsNum(0)} THEN fallback ELSE value

\* the value a column holds after a parameter was bound to it: undefined is bound as NULL
Bound(value) == IF value = JsUndefined THEN JsNull ELSE value

\* row[key] of a row object returned by db.get
Column(row, key) == IF key \in DOMAIN row THEN row[key] ELSE JsUndefined

\* !value
Falsy(value) == OrElse(value, JsNull) = JsNull

----------------------------------------------------------------------------
(* JSON decoding: JSON.parse and safeJsonParse of server.js.  A decoded     *)
(* array holds its elements as values: JsArr(<<S("a"), JsNum(1)>>).         *)

\* the text without its leading white space
TrimStart(text) ==
  LET black == {i \in 1..Len(text) : text[i] \notin {" ", "\n"}}
  IN  IF black = {} THEN <<>>
      ELSE SubSeq(text, CHOOSE i \in black : \A j \in black : i <= j, Len(text))

RECURSIVE ParseValue(_), ParseElements(_, _)
\* one JSON value at the head of the text: null, a number, a string, an array
\* or the empty object; [ok, value, rest]
ParseValue(text) ==
  LET toks == TrimStart(text)
      fail == [ok |-> FALSE, value |-> JsNull, rest |-> <<>>]
      quotes == {i \in 2..Len(toks) : toks[i] = "\""}
      close == CHOOSE i \in quotes : \A j \in quotes : i <= j
      digits == {i \in 1..Len(toks) : \A j \in 1..i : toks[j] = "1"}
  IN  IF toks = <<>> THEN fail
      ELSE IF toks[1] = "null"
        THEN [ok |-> TRUE, value |-> JsNull, rest |-> Tail(toks)]
      ELSE IF toks[1] = "1"
        THEN [ok |-> TRUE,
              value |-> [t |-> "number", v |-> SubSeq(toks, 1, Cardinality(digits))],
              rest |-> SubSeq(toks, Cardinality(digits) + 1, Len(toks))]
      ELSE IF toks[1] = "\""
        THEN IF quotes = {} \/ \E i \in 2..(close - 1) : toks[i] = "\n" THEN fail
             ELSE [ok |-> TRUE, value |-> JsStr(SubSeq(toks, 2, close - 1)),
                   rest |-> SubSeq(toks, close + 1, Len(toks))]
      ELSE IF toks[1] = "["
        THEN IF TrimStart(Tail(toks)) # <<>> /\ Head(TrimStart(Tail(toks))) = "]"
               THEN [ok |-> TRUE, value |-> JsArr(<<>>),
                     rest |-> Tail(TrimStart(Tail(toks)))]
               ELSE ParseElements(Tail(toks), <<>>)
      ELSE IF toks[1] = "{"
        THEN IF TrimStart(Tail(toks)) # <<>> /\ Head(TrimStart(Tail(toks))) = "}"
               THEN [ok |-> TRUE, value |-> [t |-> "object", v |-> <<>>],
                     rest |-> Tail(TrimStart(Tail(toks)))]
               ELSE fail
      ELSE fail

\* the elements of an array after its bracket or a comma, up to the closing bracket
ParseElements(text, elts) ==
  LET e == ParseValue(text)
      toks == TrimStart(e.rest)
  IN  IF ~e.ok \/ toks = <<>> THEN [ok |-> FALSE, value |-> JsNull, rest |-> <<>>]
      ELSE IF toks[1] = "]"
        THEN [ok |-> TRUE, value |-> JsArr(Append(elts, e.value)), rest |-> Tail(toks)]
      ELSE IF toks[1] = ","
        THEN ParseElements(Tail(toks), Append(elts, e.value))
      ELSE [ok |-> FALSE, value |-> JsNull, rest |-> <<>>]

\* JSON.parse(text): the value, or the SyntaxError it throws
JSONparse(text) ==
  LET p == ParseValue(text)
  IN  IF p.ok /\ TrimStart(p.rest) = <<>> THEN p.value
      ELSE [t |-> "SyntaxError", v |-> <<>>]

RECURSIVE SplitItems(_)
\* str.split(/[,\n]/).map(s => s.trim()).filter(s => s)
SplitItems(text) ==
  LET cuts == {i \in 1..Len(text) : text[i] \in {",", "\n"}}
      cut == IF cuts = {} THEN Len(text) + 1 ELSE CHOOSE i \in cuts : \A j \in cuts : i <= j
      piece == SubSeq(text, 1, cut - 1)
      black == {i \in 1..Len(piece) : piece[i] \notin {" ", "\n"}}
      item == IF black = {} THEN <<>>
              ELSE SubSeq(piece, CHOOSE i \in black : \A j \in black : i <= j,
                                 CHOOSE i \in black : \A j \in black : i >= j)
  IN  (IF item = <<>> THEN <<>> ELSE <<JsStr(item)>>)
        \o (IF cuts = {} THEN <<>> ELSE SplitItems(SubSeq(text, cut + 1, Len(text))))

\* the recovery of safeJsonParse left out: the fallback for every text that does not parse
safeJsonParseUnrecovered(str, defaultValue) ==
  IF Falsy(str) \/ str = S("null") \/ str = S("undefined") THEN defaultValue
  ELSE IF JSONparse(str.v).t # "SyntaxError" THEN JSONparse(str.v)
  ELSE defaultValue
\* safeJsonParse(str, defaultValue) for a column value: NULL or a text
safeJsonParse(str, defaultValue) ==
  IF Falsy(str) \/ str = S("null") \/ str = S("undefined") THEN defaultValue
  ELSE IF JSONparse(str.v).t # "SyntaxError" THEN JSONparse(str.v)
  ELSE IF defaultValue.t = "array"
    THEN IF \E i \in 1..Len(str.v) : str.v[i] \in {",", "\n"}
           THEN JsArr(SplitItems(str.v))
           ELSE JsArr(<<str>>)
  ELSE defaultValue

MaxRawLen == 3

\* safeJsonParse applied, while a read is served, to a stored value with the
\* fallback the caller passes; the stored values are NULL, every text of up
\* to MaxRawLen tokens, and longer texts of legacy rows and of JSON.stringify
SafeJsonParse ==
  /\ req = NoRequest
  /\ \E raw \in
          {JsNull}
            \cup {JsStr(text) :
                    text \in UNION {[1..n -> {"a", "1", "null", "undefined", ",", "\n", " ",
                                              "[", "]", "{", "}", "\""}]
                                     : n \in 0..MaxRawLen}}
            \cup {JsStr(<<"a", ",", "b", ",", "c">>), S("single"),
                  JsStr(<<" ", "a", " ", ",", ",", " ", "b", " ", "c", "\n">>),
                  JsStr(<<"[", "\"", "a", "\"", ",", "\"", "b", "\"", "]">>),
                  JsStr(<<"[", "\"", "a", "\"", ",", "\"", "b", "\"">>)},
        fallback \in {JsArr(<<>>), [t |-> "object", v |-> <<>>]} :
       /\ resp' = [code |-> 200, error |-> "", rows |-> {},
                   value |-> safeJsonParse(raw, fallback)]
       /\ req' = [op |-> "safeJsonParse", id |-> "none", raw |-> raw, fallback |-> fallback]
       /\ Frame({})

----------------------------------------------------------------------------
(* Bugs: server.js /api/bugs and src/routes/bugs.ts *)

MaxClock == 1
MaxBugs == 1
MaxBugHistory == 2
MaxLog == 1

Base36Digits == <<"0", "1", "2", "3", "4", "5", "6", "7", "8", "9", "A", "B">>

\* generateBugId: `BUG-${year}-${Date.now().toString(36).toUpperCase()}`
generateBugId(t) == <<"BUG", Base36Digits[t + 1]>>

\* `BUG-${Date.now()}-${Math.random().toString(36).substr(2, 9)}` of bugs.ts
TsBugId(t, random) == <<"BUG", Base36Digits[t + 1], random>>

\* the bug ids a request to the serving backend can name
BugIds ==
  IF backend = "server" THEN {generateBugId(t) : t \in 0..MaxClock}
  ELSE {TsBugId(t, "r1") : t \in 0..MaxClock}

\* the values of the bug status enum
BugStatuses ==
  {S(x) : x \in {"New", "Triaged", "Assigned", "In Progress", "Fixed", "Ready for Test",
                  "Verified", "Closed", "Reopened", "Rejected"}}

\* the CHECK with values of the enum missing
BugStatusCheckNarrowed(status) ==
  status = JsNull \/ \E x \in {"New", "Fixed", "Verified", "Rejected"} : status = S(x)

\* CHECK(status IN ('New', 'Triaged', ..., 'Rejected')); a NULL passes a CHECK
BugStatusCheck(status) == status = JsNull \/ status \in BugStatuses

BugColumns ==
  {"status", "resolution", "tags", "linked_tests", "is_deleted", "resolved_at", "verified_at"}
TsBugColumns == {"status", "steps_to_reproduce", "is_deleted", "is_rejected"}

\* INTEGER PRIMARY KEY AUTOINCREMENT of a table no row is removed from
NextRowId(table) == Cardinality(DOMAIN table) + 1

BugHistoryRow(bug_id, action, field_name, old_value, new_value) ==
  [bug_id |-> bug_id, action |-> action, field_name |-> field_name,
   old_value |-> Bound(old_value), new_value |-> Bound(new_value)]

\* db.run(INSERT INTO bug_history ...) with its callback: the rows are appended,
\* or the store rejects the inserts and the callback writes a line to the log
LogBugHistory(hist, lg, rows, histFail, line) ==
  IF histFail
    THEN [bug_history |-> hist, log |-> lg \o [i \in 1..Len(rows) |-> line]]
    ELSE [bug_history |-> hist \o rows, log |-> lg]

\* what a bug handler of server.js leaves behind, within the bounds of the model
BugOutcome(op, bug_id, histFail, status, body, out) ==
  /\ Len(out.bug_history) <= MaxBugHistory
  /\ Len(out.log) <= MaxLog
  /\ bugs' = out.bugs
  /\ bug_history' = out.bug_history
  /\ log' = out.log
  /\ resp' = out.resp
  /\ req' = [op |-> op, id |-> bug_id, histFail |-> histFail, status |-> status,
             body |-> body]
  /\ Frame({"bugs", "bug_history", "log"})

\* the clock advances between requests, while none is being served
Tick ==
  /\ now < MaxClock
  /\ now' = now + 1
  /\ req' = NoRequest
  /\ resp' = NoResponse
  /\ Frame({"now"})

\* app.post('/api/bugs')
PostBug(Bodies, Fails) ==
  /\ backend = "server"
  /\ Cardinality(DOMAIN bugs) < MaxBugs \/ generateBugId(now) \in DOMAIN bugs
  /\ \E body \in Bodies, histFail \in Fails :
       LET bug_id == generateBugId(now)
           row == [c \in BugColumns |->
                     CASE c = "status"     -> S("New")
                       [] c = "tags"       -> JsStr(JSONstringify(OrElse(body.tags, JsArr(<<>>))))
                       [] c = "linked_tests" -> JsStr(JSONstringify(JsArr(<<>>)))
                       [] c = "is_deleted" -> JsNum(0)
                       [] OTHER            -> JsNull]
           h == LogBugHistory(bug_history, log,
                  <<BugHistoryRow(bug_id, "Created", JsNull, JsNull, JsNull)>>,
                  histFail, "Error logging bug creation")
       IN  BugOutcome("PostBug", bug_id, histFail, JsUndefined, body,
             IF bug_id \in DOMAIN bugs
               THEN [bugs |-> bugs, bug_history |-> bug_history,
                     log |-> Append(log, "Error creating bug"),
                     resp |-> Err(500, "UNIQUE constraint failed: bugs.bug_id")]
               ELSE [bugs |-> PutKey(bugs, bug_id, [rowid |-> NextRowId(bugs), cols |-> row]),
                     bug_history |-> h.bug_history, log |-> h.log,
                     resp |-> Ok("Bug created successfully")])

\* the keys of a PUT /api/bugs/:bug_id body that become SET clauses, in the order of the body
BugUpdateKeys(updates) ==
  SelectSeq(<<"status", "tags", "is_deleted", "bug_id", "bogus">>,
            LAMBDA k : updates[k] # JsUndefined /\ k \notin {"id", "bug_id", "created_at"})

\* the parameter bound for a key: JSON fields are stringified
BugUpdateValue(key, value) ==
  IF key \in {"steps_to_reproduce", "linked_tests", "related_bugs", "environment", "tags",
              "attachments"}
    THEN JsStr(JSONstringify(value)) ELSE value

\* the history rows the forEach of the update handler inserts: one for each
\* key with currentBug[key] !== value
BugUpdateHistory(bug_id, currentBug, updates) ==
  LET changed == SelectSeq(BugUpdateKeys(updates), LAMBDA k :
                   Column(currentBug, k) # BugUpdateValue(k, updates[k]))
  IN  [i \in 1..Len(changed) |->
         BugHistoryRow(bug_id, "Updated", S(changed[i]),
                       Column(currentBug, changed[i]),
                       BugUpdateValue(changed[i], updates[changed[i]]))]

\* app.put('/api/bugs/:bug_id')
PutBug(Updates, Fails) ==
  /\ backend = "server"
  /\ \E bug_id \in BugIds, updates \in Updates, histFail \in Fails :
       LET currentBug == bugs[bug_id].cols
           keys == BugUpdateKeys(updates)
           h == LogBugHistory(bug_history, log, BugUpdateHistory(bug_id, currentBug, updates),
                              histFail, "Error logging bug update")
           \* the row after UPDATE bugs SET k = ?, ... (every k a column)
           newRow == [c \in DOMAIN currentBug |->
                        IF \E i \in 1..Len(keys) : keys[i] = c
                          THEN Bound(BugUpdateValue(c, updates[c])) ELSE currentBug[c]]
       IN  BugOutcome("PutBug", bug_id, histFail, updates.status, updates,
             IF bug_id \notin DOMAIN bugs
               THEN [bugs |-> bugs, bug_history |-> bug_history, log |-> log,
                     resp |-> Err(404, "Bug not found")]
             ELSE IF Len(keys) = 0
               THEN [bugs |-> bugs, bug_history |-> bug_history, log |-> log,
                     resp |-> Ok("No changes to update")]
             ELSE IF \E i \in 1..Len(keys) : keys[i] \notin DOMAIN currentBug
               THEN [bugs |-> bugs, bug_history |-> h.bug_history, log |-> h.log,
                     resp |-> Err(500, "no such column")]
             ELSE IF ~BugStatusCheck(newRow["status"])
               THEN [bugs |-> bugs, bug_history |-> h.bug_history, log |-> h.log,
                     resp |-> Err(500, "CHECK constraint failed")]
             ELSE [bugs |-> [bugs EXCEPT ![bug_id].cols = newRow],
                   bug_history |-> h.bug_history, log |-> h.log,
                   resp |-> Ok("Bug updated successfully")])

\* the old_value the status handler logs
StatusChangeOldReversed(currentBug, status) == status

StatusChangeOld(currentBug, status) == currentBug["status"]

\* app.post('/api/bugs/:bug_id/status')
PostBugStatus(Bodies, Fails) ==
  /\ backend = "server"
  /\ \E bug_id \in BugIds, body \in Bodies, histFail \in Fails :
       LET currentBug == bugs[bug_id].cols
           status == body.status
           newRow ==
             IF status \in {S("Fixed"), S("Rejected")}
               THEN [currentBug EXCEPT
                       !["status"] = status,
                       !["resolution"] = OrElse(body.resolution,
                           IF status = S("Fixed") THEN S("Fixed") ELSE S("Won't Fix")),
                       !["resolved_at"] = S("CURRENT_TIMESTAMP")]
             ELSE IF status = S("Verified")
               THEN [currentBug EXCEPT !["status"] = status,
                                       !["verified_at"] = S("CURRENT_TIMESTAMP")]
             ELSE [currentBug EXCEPT !["status"] = status]
           h == LogBugHistory(bug_history, log,
                  <<BugHistoryRow(bug_id, "Status Changed", S("status"),
                                  StatusChangeOld(currentBug, status), status)>>,
                  histFail, "Error logging status change")
       IN  BugOutcome("PostBugStatus", bug_id, histFail, status, body,
             IF bug_id \notin DOMAIN bugs
               THEN [bugs |-> bugs, bug_history |-> bug_history, log |-> log,
                     resp |-> Err(404, "Bug not found")]
             ELSE IF ~BugStatusCheck(status)
               THEN [bugs |-> bugs, bug_history |-> bug_history, log |-> log,
                     resp |-> Err(500, "CHECK constraint failed")]
             ELSE [bugs |-> [bugs EXCEPT ![bug_id].cols = newRow],
                   bug_history |-> h.bug_history, log |-> h.log,
                   resp |-> Ok("Bug status updated")])

\* the bugs table after the statement of the delete handler
BugRowsAfterDeleteRemoved(bs, bug_id) == DropKey(bs, bug_id)

BugRowsAfterDelete(bs, bug_id) ==
  [bs EXCEPT ![bug_id].cols = [@ EXCEPT !["is_deleted"] = JsNum(1),
                                        !["status"] = S("Rejected"),
                                        !["resolution"] = S("Won't Fix")]]

\* app.delete('/api/bugs/:bug_id')
DeleteBug(Fails) ==
  /\ backend = "server"
  /\ \E bug_id \in BugIds, histFail \in Fails :
       LET h == LogBugHistory(bug_history, log,
                  <<BugHistoryRow(bug_id, "Deleted", S("is_deleted"), JsNull, S("true"))>>,
                  histFail, "Error logging bug deletion")
       IN  BugOutcome("DeleteBug", bug_id, histFail, JsUndefined, JsUndefined,
             IF bug_id \notin DOMAIN bugs
               THEN [bugs |-> bugs, bug_history |-> bug_history, log |-> log,
                     resp |-> Err(404, "Bug not found")]
               ELSE [bugs |-> BugRowsAfterDelete(bugs, bug_id),
                     bug_history |-> h.bug_history, log |-> h.log,
                     resp |-> Ok("Bug deleted successfully")])

\* app.get('/api/bugs/:bug_id') and router.get('/:id') of bugs.ts
GetBug(bs, bug_id) ==
  IF bug_id \notin DOMAIN bs THEN Err(404, "Bug not found") ELSE Rows({bug_id})

\* the object the two handlers send for the row they found: server.js decodes
\* the JSON columns that are truthy, bugs.ts sends the row as selected
BugJson(row) ==
  IF backend = "server"
    THEN [c \in DOMAIN row |->
            IF c \in {"steps_to_reproduce", "linked_tests", "related_bugs", "tags",
                      "attachments"} /\ ~Falsy(row[c])
              THEN safeJsonParse(row[c], JsArr(<<>>))
            ELSE IF c = "environment" /\ ~Falsy(row[c])
              THEN safeJsonParse(row[c], [t |-> "object", v |-> <<>>])
            ELSE row[c]]
    ELSE row

\* router.post('/') of bugs.ts
TsPostBug(Steps) ==
  /\ backend = "ts"
  /\ Cardinality(DOMAIN bugs) < MaxBugs
  /\ \E status \in {S("New"), S("Open")}, steps \in Steps :
       LET bug_id == TsBugId(now, "r1")
           \* steps_to_reproduce = [] of the destructuring
           steps_to_reproduce == IF steps = JsUndefined THEN JsArr(<<>>) ELSE steps
       IN  /\ IF bug_id \in DOMAIN bugs
                THEN bugs' = bugs /\ resp' = Err(500, "Failed to create bug")
                ELSE /\ bugs' = PutKey(bugs, bug_id,
                                  [rowid |-> NextRowId(bugs),
                                   cols |-> [c \in TsBugColumns |->
                                               CASE c = "status" -> status
                                                 [] c = "steps_to_reproduce" ->
                                                      JsStr(JSONstringify(steps_to_reproduce))
                                                 [] OTHER -> JsNum(0)]])
                     /\ resp' = Created("Bug reported successfully")
           /\ req' = [op |-> "TsPostBug", id |-> bug_id, histFail |-> FALSE,
                      status |-> JsUndefined, body |-> [steps_to_reproduce |-> steps]]
           /\ Frame({"bugs"})

\* router.put('/:id') of bugs.ts
TsPutBug ==
  /\ backend = "ts"
  /\ \E bug_id \in BugIds,
        updates \in [status : {JsUndefined, S("New"), S("Closed")},
                     is_deleted : {JsUndefined, [t |-> "boolean", v |-> <<"true">>], JsNum(0)},
                     is_rejected : {JsUndefined, JsNum(1)},
                     bug_id : {JsUndefined}] :
       LET keys == SelectSeq(<<"status", "is_deleted", "is_rejected", "bug_id">>,
                             LAMBDA k : updates[k] # JsUndefined /\ k # "bug_id")
           \* the parameter bound for a key
           value(k) ==
             IF k \in {"steps_to_reproduce", "attachments"} THEN JsStr(JSONstringify(updates[k]))
             ELSE IF k \in {"is_deleted", "is_rejected"}
               THEN JsNum(IF Falsy(updates[k]) THEN 0 ELSE 1)
             ELSE updates[k]
       IN  /\ IF bug_id \notin DOMAIN bugs
                THEN bugs' = bugs /\ resp' = Err(404, "Bug not found")
                ELSE /\ bugs' = [bugs EXCEPT ![bug_id].cols =
                                   [c \in DOMAIN @ |->
                                      IF \E i \in 1..Len(keys) : keys[i] = c
                                        THEN Bound(value(c)) ELSE @[c]]]
                     /\ resp' = Ok("Bug updated successfully")
           /\ req' = [op |-> "TsPutBug", id |-> bug_id, histFail |-> FALSE,
                      status |-> JsUndefined, body |-> updates]
           /\ Frame({"bugs"})

\* router.delete('/:id') of bugs.ts
TsDeleteBug ==
  /\ backend = "ts"
  /\ \E bug_id \in BugIds :
       /\ IF bug_id \notin DOMAIN bugs
            THEN bugs' = bugs /\ resp' = Err(404, "Bug not found")
            ELSE /\ bugs' = [bugs EXCEPT ![bug_id].cols["is_deleted"] = JsNum(1)]
                 /\ resp' = Ok("Bug deleted successfully")
       /\ req' = [op |-> "TsDeleteBug", id |-> bug_id, histFail |-> FALSE,
                  status |-> JsUndefined, body |-> JsUndefined]
       /\ Frame({"bugs"})

----------------------------------------------------------------------------
(* POST /api/bugs/:bug_id/link-test: the SELECT of linked_tests and, from   *)
(* its callback, the UPDATE that writes the list read with the test added.  *)

\* the SELECT: the request waits with the list it read, or is answered 404
LinkTest ==
  /\ backend = "server"
  /\ Cardinality(pending) < MaxPending
  /\ \E bug_id \in BugIds, test_id \in {"T1", "T2"} :
       LET linkedTests == safeJsonParse(bugs[bug_id].cols["linked_tests"], JsArr(<<>>))
           p == [op |-> "link-test", id |-> bug_id, test_id |-> test_id,
                 \* the test ids of the list: each a text of one token
                 linkedTests |-> [i \in 1..Len(linkedTests.v) |-> linkedTests.v[i].v[1]]]
       IN  /\ IF bug_id \notin DOMAIN bugs
                THEN pending' = pending /\ resp' = Err(404, "Bug not found")
                ELSE p \notin pending /\ pending' = pending \cup {p} /\ resp' = NoResponse
           /\ req' = [op |-> "LinkTest", id |-> bug_id, test_id |-> test_id]
           /\ Frame({"pending"})

\* the callback of the SELECT: the UPDATE, the history row and the response
LinkTestUpdate ==
  /\ \E p \in {q \in pending : q.op = "link-test"} :
       LET included == \E i \in 1..Len(p.linkedTests) : p.linkedTests[i] = p.test_id
           h == LogBugHistory(bug_history, log,
                  <<BugHistoryRow(p.id, "Test Linked", S("linked_tests"), JsNull,
                                  S(p.test_id))>>,
                  FALSE, "Error logging test link")
       IN  /\ IF included
                THEN /\ bugs' = bugs /\ bug_history' = bug_history
                     /\ resp' = Ok("Test already linked to this bug")
                ELSE /\ Len(h.bug_history) <= MaxBugHistory
                     /\ bugs' = [bugs EXCEPT ![p.id].cols["linked_tests"] =
                                   JsStr(JSONstringify(JsArr(Append(p.linkedTests, p.test_id))))]
                     /\ bug_history' = h.bug_history
                     /\ resp' = Ok("Test linked to bug successfully")
           /\ pending' = pending \ {p}
           /\ req' = [op |-> "LinkTestUpdate", id |-> p.id, test_id |-> p.test_id]
           /\ Frame({"bugs", "bug_history", "pending"})

----------------------------------------------------------------------------
(* Attachments of a bug: the bug_attachments rows and the attachments       *)
(* column of the bug, which the upload and the delete handlers rewrite from *)
(* the value an earlier statement of theirs read.                           *)

\* the values of `ATT-${Date.now()}-${crypto.randomBytes(4).toString('hex')}`
AttachmentIds == {"ATT-1", "ATT-2", "ATT-3"}

\* the ids of a stored attachments column: each a text of one token
AttachmentsOf(bug) ==
  LET attachments == safeJsonParse(bug.cols["attachments"], JsArr(<<>>))
  IN  [i \in 1..Len(attachments.v) |-> attachments.v[i].v[1]]

\* app.post('/api/bugs/:bug_id/attachments') with one file: the SELECT of the
\* bug and, from its callback, the INSERT of the attachment row
PostAttachments ==
  /\ backend = "server"
  /\ Cardinality(pending) < MaxPending
  /\ \E bug_id \in BugIds, attachment_id \in AttachmentIds :
       /\ IF bug_id \notin DOMAIN bugs
            THEN /\ resp' = Err(404, "Bug not found")
                 /\ UNCHANGED <<bug_attachments, pending>>
          ELSE IF \E a \in bug_attachments : a.attachment_id = attachment_id
            THEN /\ resp' = Err(500, "Failed to save attachment records: UNIQUE constraint failed: bug_attachments.attachment_id")
                 /\ UNCHANGED <<bug_attachments, pending>>
          ELSE /\ bug_attachments' = bug_attachments \cup
                    {[attachment_id |-> attachment_id, bug_id |-> bug_id]}
               /\ pending' = pending \cup
                    {[op |-> "attachments", id |-> bug_id, attachment_id |-> attachment_id,
                      currentAttachments |-> AttachmentsOf(bugs[bug_id])]}
               /\ resp' = NoResponse
       /\ req' = [op |-> "PostAttachments", id |-> bug_id, attachment_id |-> attachment_id]
       /\ Frame({"bug_attachments", "pending"})

\* Promise.all(promises).then: the UPDATE of the attachments column with the
\* list the SELECT read and the new id, the history row and the response
PostAttachmentsUpdate ==
  /\ \E p \in {q \in pending : q.op = "attachments"} :
       LET newAttachments == Append(p.currentAttachments, p.attachment_id)
           h == LogBugHistory(bug_history, log,
                  <<BugHistoryRow(p.id, "Attachment Added", S("attachments"), JsNull,
                                  S("1 file(s) uploaded"))>>,
                  FALSE, "Error logging attachment upload")
       IN  /\ Len(h.bug_history) <= MaxAttachmentHistory
           /\ bugs' = [bugs EXCEPT ![p.id].cols["attachments"] =
                         JsStr(JSONstringify(JsArr(newAttachments)))]
           /\ bug_history' = h.bug_history
           /\ resp' = Ok("1 file(s) uploaded successfully")
           /\ pending' = pending \ {p}
           /\ req' = [op |-> "PostAttachmentsUpdate", id |-> p.id,
                      attachment_id |-> p.attachment_id]
           /\ Frame({"bugs", "bug_history", "pending"})

\* app.delete('/api/bugs/:bug_id/attachments/:attachment_id'): the SELECT of
\* the attachment row, its DELETE and the response
DeleteAttachment ==
  /\ backend = "server"
  /\ Cardinality(pending) < MaxPending
  /\ \E bug_id \in BugIds, attachment_id \in AttachmentIds :
       LET attachment == [attachment_id |-> attachment_id, bug_id |-> bug_id]
       IN  /\ IF attachment \notin bug_attachments
                THEN /\ resp' = Err(404, "Attachment not found")
                     /\ UNCHANGED <<bug_attachments, pending>>
                ELSE /\ bug_attachments' = bug_attachments \ {attachment}
                     /\ pending' = pending \cup
                          {[op |-> "delete-attachment", id |-> bug_id,
                            attachment_id |-> attachment_id]}
                     /\ resp' = Ok("Attachment deleted successfully")
           /\ req' = [op |-> "DeleteAttachment", id |-> bug_id, attachment_id |-> attachment_id]
           /\ Frame({"bug_attachments", "pending"})

\* the callback of the DELETE: the SELECT of the attachments column, the
\* UPDATE with the id filtered out, and the history row
DeleteAttachmentUpdate ==
  /\ \E p \in {q \in pending : q.op = "delete-attachment"} :
       LET attachments == IF p.id \in DOMAIN bugs THEN AttachmentsOf(bugs[p.id]) ELSE <<>>
           updatedAttachments == SelectSeq(attachments, LAMBDA id : id # p.attachment_id)
           h == LogBugHistory(bug_history, log,
                  <<BugHistoryRow(p.id, "Attachment Deleted", S("attachments"),
                                  S("original_name"), JsNull)>>,
                  FALSE, "Error logging attachment deletion")
       IN  /\ Len(h.bug_history) <= MaxAttachmentHistory
           /\ bugs' = IF p.id \in DOMAIN bugs
                        THEN [bugs EXCEPT ![p.id].cols["attachments"] =
                                JsStr(JSONstringify(JsArr(updatedAttachments)))]
                        ELSE bugs
           /\ bug_history' = h.bug_history
           /\ resp' = NoResponse
           /\ pending' = pending \ {p}
           /\ req' = [op |-> "DeleteAttachmentUpdate", id |-> p.id,
                      attachment_id |-> p.attachment_id]
           /\ Frame({"bugs", "bug_history", "pending"})

\* col = value and col != value of SQL: neither is true of a NULL column
SqlEq(col, value) == col # JsNull /\ col = value
SqlNe(col, value) == col # JsNull /\ col # value

\* parseInt of a query parameter, or the number a default already is
parseInt(value) ==
  CASE value.v = <<"0">> -> 0
    [] value.v = <<"1">> -> 1
    [] value.v = <<"2">> -> 2
    [] OTHER -> 100

\* ORDER BY created_at DESC: the later insert first
RowsDescending(table, ids) ==
  [i \in 1..Cardinality(ids) |->
     CHOOSE b \in ids : Cardinality({c \in ids : table[c].rowid > table[b].rowid}) = i - 1]

\* LIMIT ? OFFSET ?
LimitOffset(rows, limit, offset) ==
  SubSeq(rows, offset + 1, IF offset + limit < Len(rows) THEN offset + limit ELSE Len(rows))

Range(seq) == {seq[i] : i \in 1..Len(seq)}

\* the is_deleted condition the list handler adds for show_deleted
ShowDeletedIgnored(row, show_deleted) == TRUE

ShowDeleted(row, show_deleted) ==
  IF show_deleted = S("false")
    THEN SqlEq(row["is_deleted"], JsNum(0)) \/ row["is_deleted"] = JsNull
  ELSE IF show_deleted = S("true")
    THEN SqlEq(row["is_deleted"], JsNum(1))
  ELSE TRUE

\* the WHERE clause app.get('/api/bugs') builds
BugMatches(row, q) ==
  /\ ShowDeleted(row, q.show_deleted)
  /\ IF q.show_rejected = S("false")
       THEN SqlNe(row["status"], S("Rejected")) \/ SqlEq(row["is_deleted"], JsNum(1))
     ELSE IF q.show_rejected = S("true")
       THEN /\ SqlEq(row["status"], S("Rejected"))
            /\ (SqlEq(row["is_deleted"], JsNum(0)) \/ row["is_deleted"] = JsNull)
     ELSE TRUE
  /\ ~Falsy(q.status) => SqlEq(row["status"], q.status)

\* app.get('/api/bugs'): the bug ids of the rows returned, in order
ListBugs(bs, q) ==
  LimitOffset(RowsDescending(bs, {b \in DOMAIN bs : BugMatches(bs[b].cols, q)}),
              parseInt(OrElse(q.limit, JsNum(100))), parseInt(OrElse(q.offset, JsNum(0))))

\* the WHERE clause router.get('/') of bugs.ts builds
TsBugMatches(row, q) ==
  /\ (~Falsy(q.status) /\ q.status # S("all")) => SqlEq(row["status"], q.status)
  /\ IF q.show_deleted = S("false") THEN SqlEq(row["is_deleted"], JsNum(0))
     ELSE IF q.show_deleted = S("true") THEN SqlEq(row["is_deleted"], JsNum(1))
     ELSE TRUE
  /\ q.show_rejected = S("false") => SqlEq(row["is_rejected"], JsNum(0))

\* router.get('/') of bugs.ts
TsListBugs(bs, q) == RowsDescending(bs, {b \in DOMAIN bs : TsBugMatches(bs[b].cols, q)})

\* the listing the handler of the serving backend returns for a query
BugListing(q) == Range(IF backend = "server" THEN ListBugs(bugs, q) ELSE TsListBugs(bugs, q))

\* GET /api/bugs with its query parameters
GetBugs ==
  \E q \in [show_deleted : {JsUndefined, S("false"), S("true"), S("all")},
            show_rejected : {JsUndefined, S("false"), S("true")},
            status : {JsUndefined, S("New")},
            limit : {JsUndefined, S("1")},
            offset : {JsUndefined, S("1")}] :
    /\ resp' = Rows(BugListing(q))
    /\ req' = [op |-> "GetBugs", id |-> "none", query |-> q]
    /\ Frame({})

----------------------------------------------------------------------------
(* Features: server.js /api/features *)

MaxFeatures == 1
MaxFeatureHistory == 2
MaxUnhandled == 1

\* `FEAT-${year}-${crypto.randomBytes(4).toString('hex').toUpperCase()}`
FeatureId(random) == <<"FEAT", Base36Digits[random + 1]>>
FeatureIds == {FeatureId(r) : r \in 1..MaxFeatures}

\* the values of the feature status enum
FeatureStatuses ==
  {S(x) : x \in {"Planned", "In Design", "Ready for Dev", "In Development", "Code Review",
                  "Ready for Test", "In Testing", "Test Failed", "Completed", "On Hold",
                  "Cancelled"}}

\* CHECK(status IN ('Planned', 'In Design', ..., 'Cancelled')); a NULL passes a CHECK
FeatureStatusCheck(status) == status = JsNull \/ status \in FeatureStatuses

RECURSIVE JoinComma(_)
JoinComma(elts) ==
  IF elts = <<>> THEN <<>>
  ELSE <<Head(elts)>> \o (IF Len(elts) = 1 THEN <<>> ELSE <<",">> \o JoinComma(Tail(elts)))

\* String(value || '')
StringOf(value) ==
  IF Falsy(value) THEN JsStr(<<>>)
  ELSE IF value.t = "array" THEN JsStr(JoinComma(value.v))
  ELSE JsStr(value.v)

FeatureHistoryRow(feature_id, action, field_name, old_value, new_value) ==
  [feature_id |-> feature_id, action |-> action, field_name |-> field_name,
   old_value |-> Bound(old_value), new_value |-> Bound(new_value)]

\* an insert that replaces the rows of the table
LogFeatureHistoryOverwriting(hist, un, rows, histFail) ==
  [feature_history |-> rows, unhandled |-> un]
\* db.run(INSERT INTO feature_history ...) without a callback: the rows are
\* appended, or the store rejects the inserts and the Database object emits
\* an 'error' event for each, which nothing listens to
LogFeatureHistory(hist, un, rows, histFail) ==
  IF histFail
    THEN [feature_history |-> hist, unhandled |-> un + Len(rows)]
    ELSE [feature_history |-> hist \o rows, unhandled |-> un]

\* what a feature handler leaves behind, within the bounds of the model
FeatureOutcome(op, feature_id, histFail, body, out) ==
  /\ Len(out.feature_history) <= MaxFeatureHistory
  /\ Len(out.log) <= MaxLog
  /\ out.unhandled <= MaxUnhandled
  /\ features' = out.features
  /\ feature_history' = out.feature_history
  /\ log' = out.log
  /\ unhandled' = out.unhandled
  /\ resp' = out.resp
  /\ req' = [op |-> op, id |-> feature_id, histFail |-> histFail, updates |-> body]
  /\ Frame({"features", "feature_history", "log", "unhandled"})

\* the response of a feature handler that changes nothing
FeatureError(code, msg) ==
  [features |-> features, feature_history |-> feature_history, log |-> log,
   unhandled |-> unhandled, resp |-> Err(code, msg)]

\* app.post('/api/features')
PostFeature(Bodies, Fails) ==
  /\ backend = "server"
  /\ \E r \in 1..MaxFeatures, body \in Bodies, histFail \in Fails :
       LET feature_id == FeatureId(r)
           row == [c \in {"title", "status", "tags", "is_deleted"} |->
                     CASE c = "title"      -> body.title
                       [] c = "status"     -> S("Planned")
                       [] c = "tags"       -> JsStr(JSONstringify(OrElse(body.tags, JsArr(<<>>))))
                       [] OTHER            -> JsNum(0)]
           h == LogFeatureHistory(feature_history, unhandled,
                  <<FeatureHistoryRow(feature_id, "Feature Created", JsNull, JsNull, JsNull)>>,
                  histFail)
       IN  FeatureOutcome("PostFeature", feature_id, histFail, body,
             IF Falsy(body.title)
               THEN FeatureError(400,
                      "Missing required fields: title, module_id, target_version, creator_name")
             ELSE IF feature_id \in DOMAIN features
               THEN [FeatureError(500, "UNIQUE constraint failed: upcoming_features.feature_id")
                       EXCEPT !.log = Append(log, "Error creating feature")]
             ELSE [features |-> PutKey(features, feature_id,
                                       [rowid |-> NextRowId(features), cols |-> row]),
                   feature_history |-> h.feature_history, log |-> log,
                   unhandled |-> h.unhandled, resp |-> Ok("Feature created successfully")])

\* the keys of a PUT /api/features/:feature_id body that are in allowedFields, in the
\* order of the body
FeatureUpdateKeys(updates) ==
  SelectSeq(<<"status", "tags", "is_deleted", "feature_id">>,
            LAMBDA k : updates[k] # JsUndefined
                         /\ k \in {"title", "status", "tags", "is_deleted"})

\* the history rows the loop of the update handler inserts: one for each key
\* with oldValue !== newValue, newValue being the value as submitted
FeatureUpdateHistory(feature_id, oldFeature, updates) ==
  LET changed == SelectSeq(FeatureUpdateKeys(updates),
                           LAMBDA k : Column(oldFeature, k) # updates[k])
  IN  [i \in 1..Len(changed) |->
         FeatureHistoryRow(feature_id, "Field Updated", S(changed[i]),
                           StringOf(Column(oldFeature, changed[i])),
                           StringOf(updates[changed[i]]))]

\* app.put('/api/features/:feature_id'); when a history insert fails the
\* unhandled 'error' event ends the process before or after the UPDATE ran
PutFeature(Updates, Fails) ==
  /\ backend = "server"
  /\ \E feature_id \in FeatureIds, updates \in Updates, histFail \in Fails,
        early \in BOOLEAN :
       LET oldFeature == features[feature_id].cols
           keys == FeatureUpdateKeys(updates)
           rows == FeatureUpdateHistory(feature_id, oldFeature, updates)
           h == LogFeatureHistory(feature_history, unhandled, rows, histFail)
           \* the parameter bound for a key: arrays and objects are stringified
           value(k) == IF updates[k].t = "array"
                         THEN JsStr(JSONstringify(updates[k])) ELSE updates[k]
           newRow == [c \in DOMAIN oldFeature |->
                        IF \E i \in 1..Len(keys) : keys[i] = c
                          THEN Bound(value(c)) ELSE oldFeature[c]]
       IN  /\ early => histFail
           /\ FeatureOutcome("PutFeature", feature_id, histFail, updates,
                IF feature_id \notin DOMAIN features
                  THEN FeatureError(404, "Feature not found")
                ELSE IF Len(keys) = 0
                  THEN FeatureError(400, "No valid fields to update")
                ELSE IF histFail /\ rows # <<>> /\ early
                  THEN [features |-> features, feature_history |-> feature_history,
                        log |-> log, unhandled |-> h.unhandled, resp |-> NoResponse]
                ELSE IF ~FeatureStatusCheck(newRow["status"])
                  THEN [features |-> features, feature_history |-> h.feature_history,
                        log |-> Append(log, "Error updating feature"),
                        unhandled |-> h.unhandled,
                        resp |-> Err(500, "CHECK constraint failed")]
                ELSE [features |-> [features EXCEPT ![feature_id].cols = newRow],
                      feature_history |-> h.feature_history, log |-> log,
                      unhandled |-> h.unhandled,
                      resp |-> Ok("Feature updated successfully")])

\* app.put('/api/features/:feature_id/status')
PutFeatureStatus(Bodies, Fails) ==
  /\ backend = "server"
  /\ \E feature_id \in FeatureIds, body \in Bodies, histFail \in Fails :
       LET h == LogFeatureHistory(feature_history, unhandled,
                  <<FeatureHistoryRow(feature_id, "Status Changed", S("status"),
                                      features[feature_id].cols["status"], body.status)>>,
                  histFail)
       IN  FeatureOutcome("PutFeatureStatus", feature_id, histFail, body,
             IF Falsy(body.status)
               THEN FeatureError(400, "Status is required")
             ELSE IF feature_id \notin DOMAIN features
               THEN FeatureError(404, "Feature not found")
             ELSE IF ~FeatureStatusCheck(body.status)
               THEN FeatureError(500, "CHECK constraint failed")
             ELSE [features |-> [features EXCEPT ![feature_id].cols["status"] = body.status],
                   feature_history |-> h.feature_history, log |-> log,
                   unhandled |-> h.unhandled, resp |-> Ok("Feature status updated")])

\* app.delete('/api/features/:feature_id'): the UPDATE of no row is no error
DeleteFeature(Fails) ==
  /\ backend = "server"
  /\ \E feature_id \in FeatureIds, histFail \in Fails :
       LET h == LogFeatureHistory(feature_history, unhandled,
                  <<FeatureHistoryRow(feature_id, "Feature Cancelled/Deleted",
                                      JsNull, JsNull, JsNull)>>, histFail)
       IN  FeatureOutcome("DeleteFeature", feature_id, histFail, <<>>,
             [features |-> [f \in DOMAIN features |->
                              IF f = feature_id
                                THEN [features[f] EXCEPT !.cols["is_deleted"] = JsNum(1),
                                                         !.cols["status"] = S("Cancelled")]
                                ELSE features[f]],
              feature_history |-> h.feature_history, log |-> log,
              unhandled |-> h.unhandled, resp |-> Ok("Feature cancelled successfully")])

\* app.get('/api/features/:feature_id')
GetFeature(fs, feature_id) ==
  IF feature_id \notin DOMAIN fs THEN Err(404, "Feature not found") ELSE Rows({feature_id})

\* app.get('/api/features'): the feature ids of the rows returned, in order
ListFeatures(fs, q) ==
  LET show_deleted == IF q.show_deleted = JsUndefined THEN S("false") ELSE q.show_deleted
      matches(row) ==
        /\ ~Falsy(q.status) => SqlEq(row["status"], q.status)
        /\ IF show_deleted = S("false") THEN SqlEq(row["is_deleted"], JsNum(0))
           ELSE IF show_deleted = S("only") THEN SqlEq(row["is_deleted"], JsNum(1))
           ELSE TRUE
  IN  LimitOffset(RowsDescending(fs, {f \in DOMAIN fs : matches(fs[f].cols)}),
                  parseInt(OrElse(q.limit, JsNum(100))), parseInt(OrElse(q.offset, JsNum(0))))

----------------------------------------------------------------------------
(* Modules and custom tests: server.js /api/modules, /api/custom-tests *)

MaxModules == 1
MaxTests == 1
MaxResults == 1

\* defaultModules, inserted by initializeDatabase into an empty modules table
DefaultModules ==
  LET seeded == <<<<"INV", "Inventory Management">>, <<"PUR", "Purchases & Procurement">>,
                  <<"SAL", "Sales & CRM">>, <<"FIN", "Finance & Accounting">>,
                  <<"BUD", "Budget & Planning">>, <<"SYS", "System Administration">>,
                  <<"INT", "Integration & Interfaces">>>>
  IN  [m \in {<<"MOD", seeded[i][1]>> : i \in 1..Len(seeded)} |->
         LET i == CHOOSE i \in 1..Len(seeded) : seeded[i][1] = m[2]
         IN  [rowid |-> i, name |-> S(seeded[i][2]), display_order |-> i, is_active |-> 1]]

\* `MOD_${Date.now()}_${Math.random().toString(36).substr(2, 5).toUpperCase()}`
ModuleId(t, random) == <<"MOD", Base36Digits[t + 1], random>>

\* the module ids a request can name
ModuleIds == {<<"MOD", "INV">>, <<"MOD", "PUR">>} \cup {ModuleId(t, "A") : t \in 0..MaxClock}

\* app.post('/api/modules'); name and created_by are NOT NULL, module_id is UNIQUE
PostModule ==
  /\ backend = "server"
  /\ Cardinality(DOMAIN modules) < Cardinality(DOMAIN DefaultModules) + MaxModules
  /\ \E body \in [name : {JsUndefined, S("Reports")},
                  display_order : {JsUndefined, JsNum(0), JsNum(1)}] :
       LET module_id == ModuleId(now, "A")
       IN  /\ IF Bound(body.name) = JsNull
                THEN modules' = modules
                       /\ resp' = Err(500, "NOT NULL constraint failed: modules.name")
              ELSE IF module_id \in DOMAIN modules
                THEN modules' = modules
                       /\ resp' = Err(500, "UNIQUE constraint failed: modules.module_id")
              ELSE /\ modules' = PutKey(modules, module_id,
                                        [rowid |-> NextRowId(modules), name |-> body.name,
                                         display_order |->
                                           IF Falsy(body.display_order) \/ body.display_order = JsNum(0)
                                             THEN 999 ELSE parseInt(body.display_order),
                                         is_active |-> 1])
                   /\ resp' = Ok("Module created successfully")
           /\ req' = [op |-> "PostModule", id |-> module_id]
           /\ Frame({"modules"})

\* app.delete('/api/modules/:module_id'): refused while a test names the module
DeleteModule ==
  /\ backend = "server"
  /\ \E module_id \in ModuleIds :
       /\ IF \E t \in DOMAIN custom_tests :
               module_id \in DOMAIN modules
                 /\ SqlEq(custom_tests[t].module, modules[module_id].name)
            THEN modules' = modules
                   /\ resp' = Err(400, "Cannot delete module with associated tests")
          ELSE IF module_id \notin DOMAIN modules
            THEN modules' = modules /\ resp' = Err(404, "Module not found")
          ELSE /\ modules' = [modules EXCEPT ![module_id].is_active = 0]
               /\ resp' = Ok("Module deleted successfully")
       /\ req' = [op |-> "DeleteModule", id |-> module_id]
       /\ Frame({"modules"})

\* app.get('/api/modules'): the module ids of the rows returned,
\* ORDER BY display_order ASC, created_at ASC
GetModules(ms, is_active) ==
  LET ids == {m \in DOMAIN ms :
                is_active # JsUndefined =>
                  ms[m].is_active = (IF is_active = S("true") THEN 1 ELSE 0)}
      before(c, m) == \/ ms[c].display_order < ms[m].display_order
                      \/ ms[c].display_order = ms[m].display_order /\ ms[c].rowid < ms[m].rowid
  IN  [i \in 1..Cardinality(ids) |->
         CHOOSE m \in ids : Cardinality({c \in ids : before(c, m)}) = i - 1]

\* app.get('/api/modules/:module_id')
GetModule(ms, module_id) ==
  IF module_id \notin DOMAIN ms THEN Err(404, "Module not found") ELSE Rows({module_id})

\* `CUSTOM-${Date.now()}-${Math.random().toString(36).substr(2, 5).toUpperCase()}`
CustomTestId(t, random) == <<"CUSTOM", Base36Digits[t + 1], random>>

\* app.post('/api/custom-tests'); title and module are NOT NULL, test_id is UNIQUE
PostCustomTest ==
  /\ backend = "server"
  /\ Cardinality(DOMAIN custom_tests) < MaxTests
  /\ \E body \in [title : {JsUndefined, S("t")},
                  module : {S("Inventory Management"), S("Reports")}] :
       LET test_id == CustomTestId(now, "A")
       IN  /\ IF Bound(body.title) = JsNull
                THEN custom_tests' = custom_tests
                       /\ resp' = Err(500, "NOT NULL constraint failed: custom_tests.title")
              ELSE IF test_id \in DOMAIN custom_tests
                THEN custom_tests' = custom_tests
                       /\ resp' = Err(500, "UNIQUE constraint failed: custom_tests.test_id")
              ELSE /\ custom_tests' = PutKey(custom_tests, test_id,
                                             [rowid |-> NextRowId(custom_tests),
                                              title |-> body.title, module |-> body.module,
                                              is_active |-> 1])
                   /\ resp' = Ok("Custom test created successfully")
           /\ req' = [op |-> "PostCustomTest", id |-> test_id]
           /\ Frame({"custom_tests"})

\* app.delete('/api/custom-tests/:test_id')
DeleteCustomTest ==
  /\ backend = "server"
  /\ \E test_id \in {CustomTestId(t, "A") : t \in 0..MaxClock} :
       /\ IF test_id \notin DOMAIN custom_tests
            THEN custom_tests' = custom_tests /\ resp' = Err(404, "Test not found")
            ELSE /\ custom_tests' = [custom_tests EXCEPT ![test_id].is_active = 0]
                 /\ resp' = Ok("Custom test deleted successfully")
       /\ req' = [op |-> "DeleteCustomTest", id |-> test_id]
       /\ Frame({"custom_tests"})

\* the listing without its WHERE clause
GetCustomTestsUnfiltered(ts) == RowsDescending(ts, DOMAIN ts)
\* app.get('/api/custom-tests'): the test ids of the rows returned,
\* WHERE is_active = 1 ORDER BY created_at DESC
GetCustomTests(ts) == RowsDescending(ts, {t \in DOMAIN ts : ts[t].is_active = 1})

\* app.get('/api/custom-tests/:test_id')
GetCustomTest(ts, test_id) ==
  IF test_id \notin DOMAIN ts THEN Err(404, "Test not found") ELSE Rows({test_id})

\* app.post('/api/results') with a body that carries the NOT NULL columns; the
\* store does not enforce the foreign key to test_sessions
PostResult ==
  /\ backend = "server"
  /\ Cardinality(test_results) < MaxResults
  /\ \E session_id \in {"TEST-1", "TEST-2"} :
       /\ test_results' = test_results \cup
            {[id |-> Cardinality(test_results) + 1, session_id |-> session_id]}
       /\ resp' = Ok("Test result saved successfully")
       /\ req' = [op |-> "PostResult", id |-> session_id]
       /\ Frame({"test_results"})

\* app.post('/api/feedback')
PostFeedback ==
  /\ backend = "server"
  /\ Cardinality(test_feedback) < MaxResults
  /\ \E session_id \in {"TEST-1", "TEST-2"} :
       /\ test_feedback' = test_feedback \cup
            {[id |-> Cardinality(test_feedback) + 1, session_id |-> session_id]}
       /\ resp' = Ok("Feedback submitted successfully")
       /\ req' = [op |-> "PostFeedback", id |-> session_id]
       /\ Frame({"test_feedback"})

----------------------------------------------------------------------------
(* Administration: server.js /api/admin *)

\* clearQueries of the testing-data reset, by the table each one clears
ClearQueries == {"test_sessions", "test_results", "test_feedback", "custom_tests"}

\* app.post('/api/admin/reset-testing-data'): BEGIN TRANSACTION, the four
\* DELETEs, then ROLLBACK when one of them failed and COMMIT otherwise. BEGIN
\* fails inside an open transaction; a failed COMMIT is answered with an error
\* and no ROLLBACK, which leaves the transaction open on the shared connection,
\* the tables read through it cleared
ResetTestingData ==
  /\ backend = "server"
  /\ \E beginFails \in BOOLEAN, failed \in SUBSET ClearQueries, commitFails \in BOOLEAN :
       LET cleared == IF beginFails \/ inTx \/ failed # {} THEN {} ELSE ClearQueries
           lines == IF beginFails \/ inTx THEN <<"Error starting transaction">>
                    ELSE IF failed # {} THEN <<"Error executing">>
                    ELSE IF commitFails THEN <<"Error committing transaction">>
                    ELSE <<>>
       IN  /\ Len(log \o lines) <= MaxLog
           /\ log' = log \o lines
           /\ test_sessions' = IF "test_sessions" \in cleared THEN EmptyTable ELSE test_sessions
           /\ test_results' = IF "test_results" \in cleared THEN {} ELSE test_results
           /\ test_feedback' = IF "test_feedback" \in cleared THEN {} ELSE test_feedback
           /\ custom_tests' = IF "custom_tests" \in cleared THEN EmptyTable ELSE custom_tests
           /\ inTx' = (inTx \/ (~beginFails /\ failed = {} /\ commitFails))
           /\ resp' = IF beginFails \/ inTx THEN Err(500, "Failed to start transaction")
                      ELSE IF failed # {} THEN Err(500, "Failed to clear testing data")
                      ELSE IF commitFails THEN Err(500, "Failed to commit changes")
                      ELSE Ok("Testing data has been cleared. Users and modules preserved.")
           /\ req' = [op |-> "ResetTestingData", id |-> "none", failed |-> failed,
                      commitFails |-> commitFails]
           /\ Frame({"test_sessions", "test_results", "test_feedback", "custom_tests",
                     "inTx", "log"})

\* app.post('/api/admin/reset-database'): close the connection, delete the
\* database file and run initializeDatabase on a new one; a file that cannot
\* be deleted is logged and reopened as it is
ResetDatabase ==
  /\ backend = "server"
  /\ \E closeFails \in BOOLEAN, unlinkFails \in BOOLEAN :
       LET lines == IF closeFails THEN <<"Error closing database">>
                    ELSE IF unlinkFails THEN <<"Error deleting database">> ELSE <<>>
           kept == closeFails \/ unlinkFails
       IN  /\ Len(log \o lines) <= MaxLog
           /\ log' = log \o lines
           /\ users' = IF kept THEN users ELSE DefaultUsers
           /\ versions' = IF kept THEN versions ELSE DefaultVersions
           /\ modules' = IF kept THEN modules ELSE DefaultModules
           /\ custom_tests' = IF kept THEN custom_tests ELSE EmptyTable
           /\ test_sessions' = IF kept THEN test_sessions ELSE EmptyTable
           /\ test_results' = IF kept THEN test_results ELSE {}
           /\ test_feedback' = IF kept THEN test_feedback ELSE {}
           /\ bugs' = IF kept THEN bugs ELSE EmptyTable
           /\ bug_history' = IF kept THEN bug_history ELSE <<>>
           /\ bug_attachments' = IF kept THEN bug_attachments ELSE {}
           /\ features' = IF kept THEN features ELSE EmptyTable
           /\ feature_history' = IF kept THEN feature_history ELSE <<>>
           /\ inTx' = (closeFails /\ inTx)
           /\ resp' = IF closeFails THEN Err(500, "Failed to close database")
                      ELSE Ok("Database has been reset successfully")
           /\ req' = [op |-> "ResetDatabase", id |-> "none"]
           /\ Frame({"users", "versions", "modules", "custom_tests", "test_sessions",
                     "test_results", "test_feedback", "bugs", "bug_history",
                     "bug_attachments", "features", "feature_history", "inTx", "log"})

\* BEGIN TRANSACTION of the testing-data reset, on the connection every
\* handler shares: the statements that run until its COMMIT or ROLLBACK are
\* part of the transaction, whichever request issued them
ResetTestingDataBegin ==
  /\ backend = "server"
  /\ Cardinality(pending) < MaxPending
  /\ \E beginFails \in BOOLEAN :
       /\ IF beginFails \/ inTx
            THEN /\ Len(log) < MaxLog
                 /\ log' = Append(log, "Error starting transaction")
                 /\ resp' = Err(500, "Failed to start transaction")
                 /\ UNCHANGED <<inTx, pending>>
            ELSE /\ inTx' = TRUE
                 /\ pending' = pending \cup
                      {[op |-> "reset-testing-data", id |-> "none",
                        \* the tables as the ROLLBACK restores them
                        users |-> users, versions |-> versions, modules |-> modules,
                        custom_tests |-> custom_tests, test_sessions |-> test_sessions,
                        test_results |-> test_results, test_feedback |-> test_feedback,
                        bugs |-> bugs, bug_history |-> bug_history,
                        bug_attachments |-> bug_attachments, features |-> features,
                        feature_history |-> feature_history]}
                 /\ resp' = NoResponse
                 /\ log' = log
       /\ req' = [op |-> "ResetTestingDataBegin", id |-> "none"]
       /\ Frame({"inTx", "pending", "log"})

\* the callback of BEGIN: the four DELETEs, then ROLLBACK when one of them
\* failed and COMMIT otherwise, and the response; a failed COMMIT leaves the
\* transaction open
ResetTestingDataEnd ==
  /\ \E p \in {q \in pending : q.op = "reset-testing-data"}, failed \in SUBSET ClearQueries,
        commitFails \in BOOLEAN :
       /\ IF failed # {}
            THEN /\ Len(log) < MaxLog
                 /\ log' = Append(log, "Error executing")
                 /\ users' = p.users /\ versions' = p.versions /\ modules' = p.modules
                 /\ custom_tests' = p.custom_tests /\ test_sessions' = p.test_sessions
                 /\ test_results' = p.test_results /\ test_feedback' = p.test_feedback
                 /\ bugs' = p.bugs /\ bug_history' = p.bug_history
                 /\ bug_attachments' = p.bug_attachments /\ features' = p.features
                 /\ feature_history' = p.feature_history
                 /\ resp' = Err(500, "Failed to clear testing data")
            ELSE /\ Len(log) < MaxLog \/ ~commitFails
                 /\ log' = IF commitFails THEN Append(log, "Error committing transaction")
                           ELSE log
                 /\ custom_tests' = EmptyTable /\ test_sessions' = EmptyTable
                 /\ test_results' = {} /\ test_feedback' = {}
                 /\ UNCHANGED <<users, versions, modules, bugs, bug_history,
                                bug_attachments, features, feature_history>>
                 /\ resp' = IF commitFails THEN Err(500, "Failed to commit changes")
                            ELSE Ok("Testing data has been cleared. Users and modules preserved.")
       /\ inTx' = (failed = {} /\ commitFails)
       /\ pending' = pending \ {p}
       /\ req' = [op |-> "ResetTestingData", id |-> "none", failed |-> failed,
                  commitFails |-> commitFails]
       /\ Frame({"users", "versions", "modules", "custom_tests", "test_sessions",
                 "test_results", "test_feedback", "bugs", "bug_history", "bug_attachments",
                 "features", "feature_history", "inTx", "log", "pending"})

----------------------------------------------------------------------------
(* Modules and tests of the TypeScript backend: routes/modules.ts, routes/tests.ts *)

\* the sample modules initDatabase inserts into an empty modules table
TsDefaultModules ==
  LET seeded == <<"finance", "hr", "inventory", "sales", "purchasing", "security",
                  "core", "customer">>
      names == <<"Finance", "Human Resources", "Inventory", "Sales", "Purchasing",
                 "Security", "Core System", "Customer Service">>
  IN  [m \in {seeded[i] : i \in 1..Len(seeded)} |->
         LET i == CHOOSE i \in 1..Len(seeded) : seeded[i] = m
         IN  [rowid |-> i, name |-> S(names[i]), status |-> S("active")]]

\* router.post('/') of the tests: module_id is NOT NULL and a FOREIGN KEY to
\* modules(module_id), enforced by PRAGMA foreign_keys = ON
TsPostCustomTest ==
  /\ backend = "ts"
  /\ Cardinality(DOMAIN custom_tests) < MaxTests
  /\ \E caller \in Tokens(users), module_id \in {"finance", "hr", "reports"} :
       LET test_id == <<"TEST", Base36Digits[now + 1], "A">>
       IN  /\ IF test_id \in DOMAIN custom_tests \/ module_id \notin DOMAIN modules
                THEN custom_tests' = custom_tests /\ resp' = Err(500, "Failed to create test")
                ELSE /\ custom_tests' = PutKey(custom_tests, test_id,
                                               [rowid |-> NextRowId(custom_tests),
                                                test_name |-> S("t"), module_id |-> module_id])
                     /\ resp' = Created("Test created successfully")
           /\ req' = [op |-> "TsPostCustomTest", id |-> test_id]
           /\ Frame({"custom_tests"})

\* router.delete('/:id') of the modules: one UPDATE, no look at the tests
TsDeleteModule ==
  /\ backend = "ts"
  /\ \E caller \in Tokens(users), module_id \in {"finance", "hr", "reports"} :
       /\ IF module_id \notin DOMAIN modules
            THEN modules' = modules /\ resp' = Err(404, "Module not found")
            ELSE /\ modules' = [modules EXCEPT ![module_id].status = S("inactive")]
                 /\ resp' = Ok("Module deleted successfully")
       /\ req' = [op |-> "TsDeleteModule", id |-> module_id]
       /\ Frame({"modules"})

----------------------------------------------------------------------------
(* Statistics: the aggregates of server.js that group test_results by       *)
(* status.  A status is the sequence of its characters.                     *)

MaxStatRows == 2

\* the status texts stored in test_results.status
StatusTexts ==
  {<<"P", "a", "s", "s">>, <<"P", "A", "S", "S">>, <<"p", "a", "s", "s", " ">>,
   <<"P", "a", "s", "s", "e", "d">>, <<"F", "a", "i", "l">>, <<"s", "k", "i", "p">>,
   <<"S", "K", "I", "P">>}

\* UPPER of SQLite: the ASCII letters in upper case, every other character kept
UPPER(text) ==
  LET lower == <<"a", "d", "e", "i", "k", "l", "p", "s">>
      upper == <<"A", "D", "E", "I", "K", "L", "P", "S">>
  IN  [i \in 1..Len(text) |->
         IF \E j \in 1..Len(lower) : lower[j] = text[i]
           THEN upper[CHOOSE j \in 1..Len(lower) : lower[j] = text[i]]
           ELSE text[i]]

\* TRIM of SQLite: the spaces at both ends removed
TRIM(text) ==
  LET kept == {i \in 1..Len(text) : text[i] # " "}
  IN  IF kept = {} THEN <<>>
      ELSE LET first == CHOOSE i \in kept : \A j \in kept : i <= j
               last == CHOOSE i \in kept : \A j \in kept : j <= i
           IN  SubSeq(text, first, last)

\* SELECT <label> AS status, COUNT(*) AS count ... GROUP BY <label>
GroupByStatus(results, label(_)) ==
  {[status |-> l, count |-> Cardinality({r \in results : label(r.status) = l})] :
     l \in {label(r.status) : r \in results}}

\* testsByStatus of GET /api/statistics
testsByStatus(results) ==
  LET label(status) ==
        CASE UPPER(status) = <<"P", "A", "S", "S">> -> <<"P", "a", "s", "s">>
          [] UPPER(status) = <<"F", "A", "I", "L">> -> <<"F", "a", "i", "l">>
          [] OTHER -> status
  IN  GroupByStatus(results, label)

\* testsByStatus of GET /api/versions/:version_id/statistics
testsByStatusOfVersion(results, sessions, version_id) ==
  LET label(status) ==
        CASE UPPER(TRIM(status)) \in {<<"P", "A", "S", "S">>, <<"P", "A", "S", "S", "E", "D">>}
               -> <<"P", "a", "s", "s">>
          [] UPPER(TRIM(status)) = <<"F", "A", "I", "L">> -> <<"F", "a", "i", "l">>
          [] OTHER -> TRIM(status)
  IN  GroupByStatus({r \in results : /\ r.session_id \in DOMAIN sessions
                                     /\ sessions[r.session_id].version_id = version_id},
                    label)

\* GET /api/statistics and GET /api/versions/:version_id/statistics, as far as
\* testsByStatus goes
GetStatistics ==
  /\ backend = "server"
  /\ \E ofVersion \in BOOLEAN, version_id \in DOMAIN versions :
       /\ resp' = Rows(IF ofVersion
                         THEN testsByStatusOfVersion(test_results, test_sessions, version_id)
                         ELSE testsByStatus(test_results))
       /\ req' = [op |-> "GetStatistics", id |-> version_id, ofVersion |-> ofVersion]
       /\ Frame({})

----------------------------------------------------------------------------
(* Initial state and specifications *)

\* the store right after initializeDatabase (server.js) or initDatabase (the
\* TypeScript backend) on an empty file, holding the given bugs rows; the
\* versions and modules tables are the ones server.js seeds, the TypeScript
\* handlers of the model read and write neither
InitStore(bugRows, featureRows) ==
  /\ backend \in {"server", "ts"}
  /\ users = IF backend = "server" THEN DefaultUsers ELSE TsDefaultUsers
  /\ versions = DefaultVersions
  /\ modules = IF backend = "server" THEN DefaultModules ELSE EmptyTable
  /\ custom_tests = EmptyTable
  /\ test_sessions = EmptyTable
  /\ test_results = {}
  /\ test_feedback = {}
  /\ bugs = bugRows
  /\ bug_history = <<>>
  /\ bug_attachments = {}
  /\ features = featureRows
  /\ feature_history = <<>>
  /\ inTx = FALSE
  /\ log = <<>>
  /\ unhandled = 0
  /\ now = 0
  /\ pending = {}
  /\ req = NoRequest
  /\ resp = NoResponse

Init == InitStore(EmptyTable, EmptyTable)

SpecVersions ==
  Init /\ [][PostVersion \/ PutVersion \/ DeleteVersion \/ SetCurrentVersion
               \/ PostSession]_vars

SpecUsers ==
  Init /\ [][PostUser \/ PutUser \/ DeleteUser \/ TsRegister \/ TsPostUser
               \/ TsPutUser \/ TsDeleteUser]_vars

SpecBugs ==
  Init /\ [][\/ Tick
             \/ PostBug([tags : {JsUndefined, JsArr(<<>>), JsArr(<<"ui">>)}], BOOLEAN)
             \/ PutBug([status : {JsUndefined, S("New"), S("Fixed"), S("Bogus")},
                        tags : {JsUndefined, JsArr(<<"ui">>)},
                        is_deleted : {JsUndefined, JsNum(1)},
                        bug_id : {JsUndefined},
                        bogus : {JsUndefined}], BOOLEAN)
             \/ PostBugStatus([status : {S("Fixed"), S("Verified"), S("Bogus")},
                               resolution : {JsUndefined}], BOOLEAN)
             \/ DeleteBug(BOOLEAN)
             \/ TsPostBug({JsUndefined})
             \/ TsPutBug
             \/ TsDeleteBug]_vars

MaxListRows == 2

\* a store holding up to MaxListRows bugs rows as the write handlers leave
\* them behind, as far as the list handlers read them
InitBugList ==
  \E n \in 0..MaxListRows :
    \E f \in [0..(n - 1) ->
                [status : {S("New"), S("Rejected")},
                 is_deleted : {JsNum(0), JsNum(1), JsNull},
                 is_rejected : {JsNum(0), JsNum(1)}]] :
      /\ InitStore([b \in {generateBugId(t) : t \in 0..(n - 1)} |->
           LET t == CHOOSE t \in 0..(n - 1) : generateBugId(t) = b
           IN  [rowid |-> t + 1,
                cols |-> IF backend = "server"
                           THEN [c \in BugColumns |->
                                   CASE c = "status" -> f[t].status
                                     [] c = "is_deleted" -> f[t].is_deleted
                                     [] c \in {"tags", "linked_tests"} -> JsStr(<<"[", "]">>)
                                     [] OTHER -> JsNull]
                           ELSE [c \in TsBugColumns |->
                                   CASE c = "status" -> f[t].status
                                     [] c = "is_deleted" -> f[t].is_deleted
                                     [] c = "steps_to_reproduce" -> JsStr(<<"[", "]">>)
                                     [] OTHER -> f[t].is_rejected]]],
                   EmptyTable)
      /\ backend = "ts" => \A t \in 0..(n - 1) : f[t].is_deleted # JsNull
      /\ backend = "server" => \A t \in 0..(n - 1) : f[t].is_rejected = JsNum(0)

SpecBugList == InitBugList /\ [][GetBugs]_vars

SpecFeatures ==
  Init /\ [][\/ PostFeature([title : {JsUndefined, S("t")},
                             tags : {JsUndefined, JsArr(<<"ui">>)}], BOOLEAN)
             \/ PutFeature([status : {JsUndefined, S("Planned"), S("Completed"), S("Bogus")},
                            tags : {JsUndefined, JsArr(<<"ui">>)},
                            is_deleted : {JsUndefined, JsNum(0)},
                            feature_id : {JsUndefined, S("FEAT-X")}], BOOLEAN)
             \/ PutFeatureStatus([status : {JsUndefined, S("In Development"), S("Bogus")}], BOOLEAN)
             \/ DeleteFeature(BOOLEAN)]_vars

\* the four soft-deletable entity types, each created and deleted, the
\* history inserts accepted
SpecSoftDelete ==
  Init /\ [][\/ PostBug([tags : {JsUndefined}], {FALSE})
             \/ DeleteBug({FALSE})
             \/ TsPostBug({JsUndefined})
             \/ TsDeleteBug
             \/ PostFeature([title : {S("t")}, tags : {JsUndefined}], {FALSE})
             \/ DeleteFeature({FALSE})
             \/ PostModule
             \/ DeleteModule
             \/ PostCustomTest
             \/ DeleteCustomTest]_vars

\* the testing data filled and reset
SpecReset ==
  Init /\ [][\/ Tick
             \/ PostSession
             \/ PostResult
             \/ PostFeedback
             \/ PostCustomTest
             \/ DeleteCustomTest
             \/ ResetTestingData]_vars

\* every handler that writes a history table, and the database reset
SpecHistory ==
  Init /\ [][\/ PostBug([tags : {JsUndefined}], {FALSE})
             \/ PutBug([status : {JsUndefined, S("Fixed")},
                        tags : {JsUndefined, JsArr(<<"ui">>)},
                        is_deleted : {JsUndefined},
                        bug_id : {JsUndefined},
                        bogus : {JsUndefined}], BOOLEAN)
             \/ PostBugStatus([status : {S("Verified")}, resolution : {JsUndefined}], {FALSE})
             \/ DeleteBug({FALSE})
             \/ PostFeature([title : {S("t")}, tags : {JsUndefined}], {FALSE})
             \/ PutFeature([status : {JsUndefined, S("Completed")},
                            tags : {JsUndefined},
                            is_deleted : {JsUndefined},
                            feature_id : {JsUndefined}], BOOLEAN)
             \/ PutFeatureStatus([status : {S("In Development")}], {FALSE})
             \/ DeleteFeature({FALSE})
             \/ ResetDatabase]_vars

\* bugs created, updated and read back, the JSON columns written by both
\* backends, the history inserts accepted
SpecBugJson ==
  Init /\ [][\/ Tick
             \/ PostBug([tags : {JsUndefined, JsNull, JsArr(<<>>), JsArr(<<"ui">>),
                                 JsArr(<<"ui", "api">>)}], {FALSE})
             \/ PutBug([status : {JsUndefined, S("Fixed")},
                        tags : {JsUndefined, JsNull, JsArr(<<"ui">>), S("ui")},
                        is_deleted : {JsUndefined},
                        bug_id : {JsUndefined, S("BUG-9")},
                        bogus : {JsUndefined, S("x")}], {FALSE})
             \/ TsPostBug({JsUndefined, JsArr(<<>>), JsArr(<<"s1">>), JsArr(<<"s1", "s2">>)})
             \/ TsPutBug]_vars

\* requests that make a version current, their two statements interleaved
\* with the statements of other requests
SpecCurrentVersion ==
  Init /\ [][handleCurrentVersion \/ handleCurrentVersionCallback \/ DeleteVersion]_vars

\* a store of server.js holding one bug or one feature, with any status of
\* its enum, as the field updates leave them
InitStatus ==
  /\ backend = "server"
  /\ \/ \E s \in BugStatuses :
          InitStore([b \in {generateBugId(0)} |->
                       [rowid |-> 1,
                        cols |-> [c \in BugColumns |->
                                    CASE c = "status" -> s
                                      [] c \in {"tags", "linked_tests"} -> JsStr(<<"[", "]">>)
                                      [] c = "is_deleted" -> JsNum(0)
                                      [] OTHER -> JsNull]]],
                    EmptyTable)
     \/ \E f \in FeatureStatuses :
          InitStore(EmptyTable,
                    [x \in {FeatureId(1)} |->
                       [rowid |-> 1,
                        cols |-> [c \in {"title", "status", "tags", "is_deleted"} |->
                                    CASE c = "title" -> S("t")
                                      [] c = "status" -> f
                                      [] c = "tags" -> JsStr(<<"[", "]">>)
                                      [] OTHER -> JsNum(0)]]])

\* the status of the bug and of the feature changed, to every value of the
\* enum and to a value outside of it
SpecStatus ==
  InitStatus
    /\ [][\/ PostBugStatus([status : BugStatuses \cup {S("Bogus")},
                            resolution : {JsUndefined}], {FALSE})
          \/ PutFeatureStatus([status : FeatureStatuses \cup {JsUndefined, S("Bogus")}],
                              {FALSE})]_vars

\* tests linked to a bug by requests whose read and write interleave
SpecLinkTest ==
  Init /\ [][PostBug([tags : {JsUndefined}], BOOLEAN) \/ LinkTest \/ LinkTestUpdate]_vars

\* the decoder applied to stored values
SpecDecode == Init /\ [][SafeJsonParse]_vars

\* the store of either backend with its seeded modules
InitModules ==
  /\ backend \in {"server", "ts"}
  /\ users = IF backend = "server" THEN DefaultUsers ELSE TsDefaultUsers
  /\ versions = DefaultVersions
  /\ modules = IF backend = "server" THEN DefaultModules ELSE TsDefaultModules
  /\ custom_tests = EmptyTable
  /\ test_sessions = EmptyTable
  /\ test_results = {}
  /\ test_feedback = {}
  /\ bugs = EmptyTable
  /\ bug_history = <<>>
  /\ bug_attachments = {}
  /\ features = EmptyTable
  /\ feature_history = <<>>
  /\ inTx = FALSE
  /\ log = <<>>
  /\ unhandled = 0
  /\ now = 0
  /\ pending = {}
  /\ req = NoRequest
  /\ resp = NoResponse

\* modules and tests created, modules deleted, on either backend
SpecModules ==
  InitModules /\ [][PostModule \/ PostCustomTest \/ DeleteModule
                      \/ TsPostCustomTest \/ TsDeleteModule]_vars

\* version deletes, their statements interleaved with those of the requests
\* that make a version current
SpecDeleteVersion ==
  Init /\ [][DeleteVersionCheck \/ DeleteVersionRun \/ handleCurrentVersion
               \/ handleCurrentVersionCallback \/ PostSession]_vars

\* a store of server.js holding one bug as POST /api/bugs leaves it, its
\* attachments column the text of the empty array
InitAttachments ==
  /\ backend = "server"
  /\ InitStore([b \in {generateBugId(0)} |->
                  [rowid |-> 1,
                   cols |-> [c \in BugColumns \cup {"attachments"} |->
                               CASE c = "status" -> S("New")
                                 [] c \in {"tags", "linked_tests", "attachments"} ->
                                      JsStr(<<"[", "]">>)
                                 [] c = "is_deleted" -> JsNum(0)
                                 [] OTHER -> JsNull]]],
               EmptyTable)

\* attachments uploaded to and deleted from the bug, the statements of the
\* requests interleaved
SpecAttachments ==
  InitAttachments /\ [][PostAttachments \/ PostAttachmentsUpdate \/ DeleteAttachment
                          \/ DeleteAttachmentUpdate]_vars

\* the testing-data reset with the requests that write while its transaction
\* is open
SpecResetOverlap ==
  Init /\ [][\/ ResetTestingDataBegin
             \/ ResetTestingDataEnd
             \/ PostModule
             \/ PostSession
             \/ PostCustomTest]_vars

\* a store of server.js holding one session of the current version and up to
\* MaxStatRows results of it, with the statuses the clients have stored
InitStatistics ==
  /\ backend = "server"
  /\ users = DefaultUsers
  /\ versions = DefaultVersions
  /\ modules = DefaultModules
  /\ custom_tests = EmptyTable
  /\ test_sessions = [s \in {"TEST-1"} |-> [version_id |-> VersionIdOf(<<"1", ".", "2", ".", "0">>)]]
  /\ \E n \in 0..MaxStatRows :
       \E f \in [1..n -> StatusTexts] :
         test_results = {[id |-> i, session_id |-> "TEST-1", status |-> f[i]] : i \in 1..n}
  /\ test_feedback = {}
  /\ bugs = EmptyTable
  /\ bug_history = <<>>
  /\ bug_attachments = {}
  /\ features = EmptyTable
  /\ feature_history = <<>>
  /\ inTx = FALSE
  /\ log = <<>>
  /\ unhandled = 0
  /\ now = 0
  /\ pending = {}
  /\ req = NoRequest
  /\ resp = NoResponse

\* the aggregates computed over the stored results
SpecStatistics == InitStatistics /\ [][GetStatistics]_vars

----------------------------------------------------------------------------
(* C1 *)

CurrentVersions(vs) == {v \in DOMAIN vs : vs[v].is_current # 0}

\* C1: after any sequence of version create, update, set-current and delete
\* requests at most one Version row has is_current set, and a request that
\* sets a Version's is_current clears the flag of every other Version.
C1_AtMostOneCurrent ==
  /\ Cardinality(CurrentVersions(versions)) <= 1
  /\ (req.op \in {"PostVersion", "PutVersion", "SetCurrentVersion"} /\ resp.code = 200
        /\ req.id \in CurrentVersions(versions))
       => CurrentVersions(versions) = {req.id}

\* a version was made current by a successful update while another one was stored
C1_Witness ==
  /\ req.op = "PutVersion" /\ resp.code = 200 /\ req.is_current
  /\ CurrentVersions(versions) = {req.id}
  /\ Cardinality(DOMAIN versions) >= 3
  /\ req.id \notin CurrentVersions(DefaultVersions)

----------------------------------------------------------------------------
(* C2 *)

IsSoleAdmin(us, id) ==
  /\ id \in DOMAIN us
  /\ us[id].role = "admin"
  /\ \A u \in DOMAIN us : us[u].role = "admin" => u = id

IsDeleteUser(r) == r.op \in {"DeleteUser", "TsDeleteUser"} /\ r.authorized

\* C2: a delete request for the User who is the sole remaining admin is
\* rejected with a conflict error and leaves the users table as it was.
C2_SoleAdminDeleteRejected ==
  [][(IsDeleteUser(req') /\ IsSoleAdmin(users, req'.id))
       => (resp'.code \in {400, 409} /\ users' = users)]_vars

----------------------------------------------------------------------------
(* C3 *)

\* the allowed fields a feature update submits whose value, arrays in their
\* JSON-serialized form, differs from the stored one
FeatureFieldsDiffering(oldFeature, updates) ==
  {k \in Range(FeatureUpdateKeys(updates)) :
     oldFeature[k] # (IF updates[k].t = "array"
                        THEN JsStr(JSONstringify(updates[k])) ELSE updates[k])}

----------------------------------------------------------------------------
(* C4 *)

\* the rows a step appended to bug_history
AppendedBugHistory == SubSeq(bug_history', Len(bug_history) + 1, Len(bug_history'))

\* the rows among them that record a field called status
AppendedStatusRows == SelectSeq(AppendedBugHistory, LAMBDA h : h.field_name = S("status"))

\* a request that set the status of an existing bug, answered with success, whose
\* history inserts the store accepted
StatusSetBy(op) ==
  /\ req'.op = op
  /\ resp'.code = 200
  /\ req'.status # JsUndefined
  /\ ~req'.histFail
  /\ req'.id \in DOMAIN bugs

StatusRowOf(bug_id, action) ==
  [bug_id |-> bug_id, action |-> action, field_name |-> S("status"),
   old_value |-> bugs[bug_id].cols["status"], new_value |-> req'.status]

----------------------------------------------------------------------------
(* C5 *)

IsDeleteBug(r) == r.op \in {"DeleteBug", "TsDeleteBug"}

\* C5: a DELETE of an existing bug sets is_deleted = 1 and no bug request
\* (create, update, status change, delete) removes a row of bugs: every bug
\* that exists before a step is still returned by fetch-by-id after it
C5_BugNeverRemoved ==
  [][/\ \A b \in DOMAIN bugs : GetBug(bugs', b) = Rows({b})
     /\ (IsDeleteBug(req') /\ req'.id \in DOMAIN bugs) =>
          bugs'[req'.id].cols["is_deleted"] = JsNum(1)]_vars

C5_Witness ==
  /\ IsDeleteBug(req) /\ resp.code = 200
  /\ req.id \in DOMAIN bugs
  /\ bugs[req.id].cols["is_deleted"] = JsNum(1)
  /\ GetBug(bugs, req.id).code = 200

----------------------------------------------------------------------------
(* C6 *)

\* the same query with another show_deleted, and with the default paging
WithShowDeleted(q, show_deleted) ==
  [q EXCEPT !.show_deleted = show_deleted, !.limit = JsUndefined, !.offset = JsUndefined]

\* C6: a bug listing with show_deleted=false returns no row with is_deleted = 1;
\* with show_deleted=true it returns only rows with is_deleted = 1; with
\* show_deleted omitted or 'all' the parameter restricts nothing: the listing
\* is that of show_deleted=false together with that of show_deleted=true, and
\* with no other filter it is every row of the table.  Whatever the other
\* filters of the query are.
C6_ShowDeletedFilter ==
  req.op = "GetBugs" =>
    /\ req.query.show_deleted = S("false") =>
         \A b \in resp.rows : bugs[b].cols["is_deleted"] # JsNum(1)
    /\ req.query.show_deleted = S("true") =>
         \A b \in resp.rows : bugs[b].cols["is_deleted"] = JsNum(1)
    /\ (req.query.show_deleted \in {JsUndefined, S("all")}
          /\ req.query.limit = JsUndefined /\ req.query.offset = JsUndefined) =>
         /\ resp.rows = BugListing(WithShowDeleted(req.query, S("false")))
                          \cup BugListing(WithShowDeleted(req.query, S("true")))
         /\ (req.query.show_rejected = JsUndefined /\ req.query.status = JsUndefined) =>
              resp.rows = DOMAIN bugs

C6_Witness ==
  /\ req.op = "GetBugs"
  /\ backend = "server"
  /\ req.query.show_deleted = S("all")
  /\ req.query.show_rejected = S("false")
  /\ req.query.limit = JsUndefined /\ req.query.offset = JsUndefined
  /\ \E b \in resp.rows : bugs[b].cols["is_deleted"] = JsNum(1)
  /\ resp.rows # DOMAIN bugs

----------------------------------------------------------------------------
(* C7 *)

\* a listing request that carries no query parameter
NoFilter ==
  [show_deleted |-> JsUndefined, show_rejected |-> JsUndefined, status |-> JsUndefined,
   limit |-> JsUndefined, offset |-> JsUndefined]

SoftDeletedBugs == {b \in DOMAIN bugs : bugs[b].cols["is_deleted"] = JsNum(1)}
SoftDeletedFeatures == {f \in DOMAIN features : features[f].cols["is_deleted"] = JsNum(1)}
SoftDeletedModules == {m \in DOMAIN modules : modules[m].is_active = 0}
SoftDeletedTests == {t \in DOMAIN custom_tests : custom_tests[t].is_active = 0}

\* fetch-by-id returns every soft-deleted entity of the four types
FetchByIdReturnsSoftDeleted ==
  /\ \A b \in SoftDeletedBugs : GetBug(bugs, b) = Rows({b})
  /\ \A f \in SoftDeletedFeatures : GetFeature(features, f) = Rows({f})
  /\ \A m \in SoftDeletedModules : GetModule(modules, m) = Rows({m})
  /\ \A t \in SoftDeletedTests : GetCustomTest(custom_tests, t) = Rows({t})

----------------------------------------------------------------------------
(* C8 *)

\* C8: when POST /api/admin/reset-testing-data responds, either it reports
\* success and test_sessions, test_results, test_feedback and custom_tests
\* are all empty, or it reports an error and the four tables hold exactly
\* the rows they held before the request
C8_ResetAllOrNothing ==
  [][req'.op = "ResetTestingData" =>
       \/ /\ resp'.code = 200
          /\ test_sessions' = EmptyTable /\ test_results' = {}
          /\ test_feedback' = {} /\ custom_tests' = EmptyTable
       \/ /\ resp'.code # 200
          /\ test_sessions' = test_sessions /\ test_results' = test_results
          /\ test_feedback' = test_feedback /\ custom_tests' = custom_tests]_vars

----------------------------------------------------------------------------
(* C9 *)

\* the rows of a history table before a step are the first rows after it, unchanged
HistoryKept(before, after) ==
  Len(before) <= Len(after) /\ SubSeq(after, 1, Len(before)) = before

----------------------------------------------------------------------------
(* C10 *)

IsFeatureWrite(r) ==
  r.op \in {"PostFeature", "PutFeature", "PutFeatureStatus", "DeleteFeature"}

----------------------------------------------------------------------------
(* C11 *)

\* what the decoder returned is what is specified for the stored value raw
\* and the fallback, the values in Empty being the ones decoded to the fallback
DecodedAsSpecified(raw, fallback, out, Empty) ==
  LET parsed == JSONparse(raw.v)
      malformed == raw \notin Empty /\ parsed.t = "SyntaxError"
      delimited == \E i \in 1..Len(raw.v) : raw.v[i] \in {",", "\n"}
      \* the pieces of raw between two delimiters that hold more than spaces
      pieces == {p \in (0..Len(raw.v)) \X (1..(Len(raw.v) + 1)) :
                   /\ p[1] < p[2]
                   /\ p[1] = 0 \/ raw.v[p[1]] \in {",", "\n"}
                   /\ p[2] = Len(raw.v) + 1 \/ raw.v[p[2]] \in {",", "\n"}
                   /\ \A i \in (p[1] + 1)..(p[2] - 1) : raw.v[i] \notin {",", "\n"}
                   /\ \E i \in (p[1] + 1)..(p[2] - 1) : raw.v[i] # " "}
  IN  /\ out.t # "SyntaxError"
      /\ raw \in Empty => out = fallback
      /\ (raw \notin Empty /\ parsed.t # "SyntaxError") => out = parsed
      /\ (malformed /\ fallback.t # "array") => out = fallback
      /\ (malformed /\ fallback.t = "array" /\ ~delimited) => out = JsArr(<<raw>>)
      /\ (malformed /\ fallback.t = "array" /\ delimited) =>
           /\ out.t = "array"
           /\ Len(out.v) = Cardinality(pieces)
           /\ \A i \in 1..Len(out.v) :
                /\ out.v[i].t = "string"
                /\ out.v[i].v # <<>>
                /\ Head(out.v[i].v) # " " /\ out.v[i].v[Len(out.v[i].v)] # " "
                /\ \E p \in pieces :
                     \E a \in (p[1] + 1)..(p[2] - 1), b \in (p[1] + 1)..(p[2] - 1) :
                       /\ out.v[i].v = SubSeq(raw.v, a, b)
                       /\ \A j \in ((p[1] + 1)..(a - 1)) \cup ((b + 1)..(p[2] - 1)) :
                            raw.v[j] = " "
      /\ (raw = JsStr(<<"a", ",", "b", ",", "c">>) /\ fallback.t = "array") =>
           out = JsArr(<<S("a"), S("b"), S("c")>>)

\* C11 (as amended): safeJsonParse(raw, fallback) never throws and returns the
\* fallback when raw is empty, null, the literal "null" or the literal
\* "undefined"; the parsed value when raw is valid JSON; otherwise, when the
\* fallback is an array, the trimmed non-empty pieces of raw split on comma
\* or newline, or [raw] when raw holds no delimiter; otherwise the fallback
C11_SafeJsonParse ==
  req.op = "safeJsonParse" =>
    DecodedAsSpecified(req.raw, req.fallback, resp.value,
                       {JsNull, JsStr(<<>>), S("null"), S("undefined")})

\* C11 (as stated): the fallback is returned only for the empty text, null and
\* the literal "null"
C11_FallbackOnlyForEmptyAndNull ==
  req.op = "safeJsonParse" =>
    DecodedAsSpecified(req.raw, req.fallback, resp.value, {JsNull, JsStr(<<>>), S("null")})

\* a legacy text with blank pieces was recovered as the list of its trimmed pieces
C11_Witness ==
  /\ req.op = "safeJsonParse"
  /\ req.raw = JsStr(<<" ", "a", " ", ",", ",", " ", "b", " ", "c", "\n">>)
  /\ resp.value = JsArr(<<S("a"), JsStr(<<"b", " ", "c">>)>>)

----------------------------------------------------------------------------
(* C12 *)

\* C12: whenever GET /api/bugs/:bug_id of server.js returns a bug, each
\* JSON-array field of the returned object is an array, whatever the column holds
C12_JsonArrayFieldsAreArrays ==
  backend = "server" =>
    \A bug_id \in DOMAIN bugs :
      GetBug(bugs, bug_id).code = 200 =>
        \A c \in {"tags"} \cap DOMAIN bugs[bug_id].cols :
          BugJson(bugs[bug_id].cols)[c].t = "array"

----------------------------------------------------------------------------
(* C13 *)

\* C13: after a bug was created with an array supplied for a JSON-array
\* field, the fetch by the returned id succeeds and the field of the returned
\* row is the array that was supplied
C13_CreateFetchRoundTrip ==
  (req.op \in {"PostBug", "TsPostBug"} /\ resp.code \in {200, 201}) =>
    /\ GetBug(bugs, req.id).code = 200
    /\ \A c \in DOMAIN req.body :
         req.body[c].t = "array" =>
           /\ BugJson(bugs[req.id].cols)[c].t = "array"
           /\ BugJson(bugs[req.id].cols)[c].v =
                [i \in 1..Len(req.body[c].v) |-> S(req.body[c].v[i])]

----------------------------------------------------------------------------
(* C14 *)

\* C14: a set-current or delete request for a version id that the table does
\* not hold is answered with a not-found error and changes no table
C14_NotFoundBeforeMutation ==
  [][(/\ req'.op \in {"SetCurrentVersion", "DeleteVersion"}
      /\ req'.id \notin DOMAIN versions)
       => (/\ resp'.code = 404
           /\ versions' = versions
           /\ test_sessions' = test_sessions)]_vars

----------------------------------------------------------------------------
(* C15 *)

\* C15: an update of a stored bug whose payload holds no updatable field is
\* answered with a 'no fields to update' error and writes nothing
C15_NoFieldsToUpdate ==
  [][(/\ req'.op = "PutBug"
      /\ req'.id \in DOMAIN bugs
      /\ BugUpdateKeys(req'.body) = <<>>)
       => (/\ resp'.code = 400
           /\ bugs' = bugs
           /\ bug_history' = bug_history)]_vars

----------------------------------------------------------------------------
(* C16 *)

\* C16: an update of a stored bug whose payload holds an updatable field
\* succeeds and applies that field, whatever other keys the payload holds:
\* keys that are no fields of a bug and the bug_id key are dropped; no update
\* changes the id of a row
C16_UnknownKeysDropped ==
  [][(/\ req'.op = "PutBug"
      /\ req'.id \in DOMAIN bugs
      /\ \E k \in {"status", "tags", "is_deleted"} : req'.body[k] # JsUndefined)
       => (/\ resp'.code = 200
           /\ DOMAIN bugs' = DOMAIN bugs
           /\ bugs'[req'.id].rowid = bugs[req'.id].rowid
           /\ \A k \in {"status", "tags", "is_deleted"} :
                req'.body[k] # JsUndefined =>
                  bugs'[req'.id].cols[k] = Bound(BugUpdateValue(k, req'.body[k])))]_vars

----------------------------------------------------------------------------
(* C17 *)

\* C17: every bug create receives an id that no stored bug has, and is not
\* failed by a collision of ids, also when it follows another create within
\* the same millisecond
C17_CreatedIdsUnique ==
  [][req'.op = "PostBug"
       => (/\ req'.id \notin DOMAIN bugs
           /\ resp'.code = 200
           /\ req'.id \in DOMAIN bugs')]_vars

----------------------------------------------------------------------------
(* C18 *)

\* C18: when requests that each make a version current ran with their
\* statements interleaved and all of them have completed, at most one
\* version has is_current set
C18_AtMostOneCurrentAfterBoth ==
  pending = {} => Cardinality(CurrentVersions(versions)) <= 1

----------------------------------------------------------------------------
(* C19 *)

\* C19: from a store that holds an admin, after any sequence of user create,
\* update and delete requests a user with role admin still exists
C19_AdminRemains ==
  \E u \in DOMAIN users : users[u].role = "admin"

----------------------------------------------------------------------------
(* C20 *)

\* C20: the history rows of a bug update are written after the row write: an
\* update whose row write fails appends no history row and changes no bug
C20_HistoryAfterRowWrite ==
  [][(req'.op = "PutBug" /\ resp'.code = 500)
       => (bug_history' = bug_history /\ bugs' = bugs)]_vars

----------------------------------------------------------------------------
(* C21 *)

\* C21: whenever a request of server.js makes the status of a bug Fixed or
\* Rejected, the bug then has a resolution and a resolved_at timestamp, and
\* whenever it makes the status Verified the bug then has a verified_at timestamp
C21_ResolutionAndTimestamps ==
  [][backend = "server" =>
       \A b \in DOMAIN bugs' :
         LET becomes(s) == /\ bugs'[b].cols["status"] = S(s)
                           /\ b \notin DOMAIN bugs \/ bugs[b].cols["status"] # S(s)
         IN  /\ (becomes("Fixed") \/ becomes("Rejected"))
                  => /\ bugs'[b].cols["resolution"] # JsNull
                     /\ bugs'[b].cols["resolved_at"] # JsNull
             /\ becomes("Verified") => bugs'[b].cols["verified_at"] # JsNull]_vars

----------------------------------------------------------------------------
(* C22 *)

\* C22: a status change of a stored bug to any value of the bug status enum
\* is accepted and leaves the bug with that status, whatever its status was;
\* the same holds for a stored feature and the feature status enum
C22_AnyTransitionAccepted ==
  [][/\ (req'.op = "PostBugStatus" /\ req'.id \in DOMAIN bugs
           /\ req'.status \in BugStatuses)
          => (resp'.code = 200 /\ bugs'[req'.id].cols["status"] = req'.status)
     /\ (req'.op = "PutFeatureStatus" /\ req'.id \in DOMAIN features
           /\ req'.updates.status \in FeatureStatuses)
          => (/\ resp'.code = 200
              /\ features'[req'.id].cols["status"] = req'.updates.status)]_vars

\* a closed bug was made New again
C22_Witness ==
  \E i \in 1..Len(bug_history) :
    /\ bug_history[i].action = "Status Changed"
    /\ bug_history[i].old_value = S("Closed")
    /\ bug_history[i].new_value = S("New")
    /\ bugs[bug_history[i].bug_id].cols["status"] = S("New")
    /\ req.op = "PostBugStatus" /\ req.status = S("New") /\ resp.code = 200

----------------------------------------------------------------------------
(* C23 *)

\* C23: when the link-test requests on a bug have completed, linked_tests
\* holds the test id of every request that reported the link as made (each
\* of them left its 'Test Linked' history row)
C23_NoLinkLost ==
  pending = {} =>
    \A i \in 1..Len(bug_history) :
      bug_history[i].action = "Test Linked" =>
        LET linked == safeJsonParse(bugs[bug_history[i].bug_id].cols["linked_tests"],
                                    JsArr(<<>>))
        IN  \E j \in 1..Len(linked.v) : linked.v[j] = bug_history[i].new_value

----------------------------------------------------------------------------
(* C24 *)

\* C24: a version create request that fails leaves every version row, and
\* every is_current flag, as it was
C24_FailedCreateChangesNothing ==
  [][(req'.op = "PostVersion" /\ resp'.code # 200) => versions' = versions]_vars

----------------------------------------------------------------------------
(* C25 *)

\* the modules a stored test refers to: by name in server.js, by the foreign
\* key module_id in the TypeScript backend
ReferencedModules ==
  {m \in DOMAIN modules :
     \E t \in DOMAIN custom_tests :
       IF backend = "server" THEN SqlEq(custom_tests[t].module, modules[m].name)
       ELSE custom_tests[t].module_id = m}

\* C25: a module delete request that names a module a test refers to is
\* answered with an error and leaves the modules table as it was
C25_ReferencedModuleNotDeactivated ==
  [][(req'.op \in {"DeleteModule", "TsDeleteModule"} /\ req'.id \in ReferencedModules)
       => (modules' = modules /\ resp'.code >= 400)]_vars

----------------------------------------------------------------------------
(* C26 *)

\* C26: a version delete request never removes or archives a version whose
\* is_current is set: it is answered with an error and the versions are
\* unchanged, also while another request makes a version current
C26_CurrentVersionNotDeleted ==
  [][(req'.op = "DeleteVersion" /\ req'.id \in DOMAIN versions
        /\ versions[req'.id].is_current # 0)
       => (versions' = versions /\ resp'.code >= 400)]_vars

----------------------------------------------------------------------------
(* C27 *)

\* C27: when the attachment uploads and deletes on a bug have completed, the
\* attachments array of the bug holds exactly the attachment ids of the
\* bug_attachments rows stored for the bug
C27_AttachmentsMatchRows ==
  pending = {} =>
    \A b \in DOMAIN bugs :
      {AttachmentsOf(bugs[b])[i] : i \in 1..Len(AttachmentsOf(bugs[b]))}
        = {a.attachment_id : a \in {r \in bug_attachments : r.bug_id = b}}

----------------------------------------------------------------------------
(* C28 *)

\* C28: the testing-data reset, committed or rolled back, leaves users,
\* modules, versions, bugs, features and the history rows as they are when
\* it ends: a write another request made while it ran is not undone
C28_ResetLeavesOtherTables ==
  [][req'.op = "ResetTestingData"
       => <<users, modules, versions, bugs, features, bug_history, feature_history>>'
            = <<users, modules, versions, bugs, features, bug_history, feature_history>>]_vars

----------------------------------------------------------------------------
(* C29 *)

\* the results the aggregate of the request ranges over
ResultsInScope ==
  IF req.ofVersion
    THEN {r \in test_results : /\ r.session_id \in DOMAIN test_sessions
                               /\ test_sessions[r.session_id].version_id = req.id}
    ELSE test_results

\* the results whose status differs from that of r only in letter case or
\* in surrounding whitespace
SameStatusAs(r) == {q \in ResultsInScope : UPPER(TRIM(q.status)) = UPPER(TRIM(r.status))}

\* the sum of the counts of the buckets
RECURSIVE SumCounts(_)
SumCounts(buckets) ==
  IF buckets = {} THEN 0
  ELSE LET b == CHOOSE b \in buckets : TRUE IN b.count + SumCounts(buckets \ {b})

\* C29: in the testsByStatus aggregates the results whose statuses differ
\* only in letter case or surrounding whitespace are counted in one bucket,
\* and the counts of the buckets sum to the number of results in scope
C29_StatusBucketsNormalised ==
  req.op = "GetStatistics" =>
    /\ \A r \in ResultsInScope :
         \E b \in resp.rows : b.count >= Cardinality(SameStatusAs(r))
    /\ SumCounts(resp.rows) = Cardinality(ResultsInScope)

----------------------------------------------------------------------------
(* C30 *)

\* C30: a request of the token-authenticated routes whose caller is not an
\* admin (a registration has no caller) adds no admin, raises no user to
\* admin, changes no is_active flag and changes no row but the caller's own
C30_NonAdminCannotEscalate ==
  [][(req'.op \in {"TsRegister", "TsPostUser", "TsPutUser", "TsDeleteUser"}
        /\ req'.caller.role # "admin")
       => /\ \A u \in DOMAIN users' :
               users'[u].role = "admin" => (u \in DOMAIN users /\ users[u].role = "admin")
          /\ \A u \in DOMAIN users :
               /\ u \in DOMAIN users'
               /\ users'[u].is_active = users[u].is_active
               /\ u # req'.caller.id => users'[u] = users[u]]_vars

====
